---- MODULE Spec2Model ----
(***************************************************************************)
(* Model of the request-dispatch and response-resolution engine of the     *)
(* mock API server: condition matching, authentication, placeholder        *)
(* resolution with its process-wide cache, the handler variants chosen by  *)
(* setup_routes, and the Redis-backed entity store.                        *)
(***************************************************************************)
EXTENDS Integers, Sequences, FiniteSets, TLC

VARIABLES
    endpoints,  \* the loaded endpoint configuration (config["endpoints"])
    cache,      \* auth.security._auth_resolution_cache
    inflight,   \* handler coroutines suspended at an await, by slot
    resp,       \* the response last returned, with the request it answers
    client,     \* RedisClient._client is set
    redis,      \* contents of the Redis database: key -> value, expiry
    reachable,  \* the Redis server accepts connections
    now,        \* wall clock, seconds
    nextId,     \* number of uuid4 values drawn so far
    issued,     \* history: the entities stored and not deleted since
    call,       \* arguments of a direct call of a function
    ret,        \* result of that call
    servers,    \* contents of .server_state/servers.json
    processes   \* server processes started so far, by pid

vars == <<endpoints, cache, inflight, resp, client, redis, reachable, now, nextId, issued, call, ret,
          servers, processes>>

(***************************************************************************)
(* JSON / Python values.  Scalars carry their Python type so that ==       *)
(* behaves as in Python: bool and int compare by numeric value,            *)
(* every other pair compares by type and value.                            *)
(***************************************************************************)
None == [t |-> "null", v |-> ""]
PyInt(s) == [t |-> "int", v |-> s]
PyTrue == [t |-> "bool", v |-> "1"]
Str(s) == [t |-> "str", v |-> s]

Numeric == {"int", "bool"}

\* Python's == on scalars
PyEq(x, y) ==
    IF x.t \in Numeric /\ y.t \in Numeric THEN x.v = y.v ELSE x = y

\* dict.get(key): the value, or None when the key is absent
DictGet(d, k) == IF k \in DOMAIN d THEN d[k] ELSE None

EmptyDict == [k \in {} |-> None]

\* rule.get("body_conditions") is None
NoConditions == [none |-> TRUE]
Conditions(d) == [none |-> FALSE, d |-> d]

\* Python truthiness of a conditions value: None and {} are falsy
Truthy(conditions) == conditions # NoConditions /\ DOMAIN conditions.d # {}

\* processing/templates.py check_conditions
check_conditions(data, conditions) ==
    IF ~Truthy(conditions) THEN FALSE
    ELSE \A k \in DOMAIN conditions.d : PyEq(DictGet(data, k), conditions.d[k])

\* the inline test of create_handler_with_body:
\* all(request_body.get(k) == v for k, v in conditions.items())
inline_conditions(request_body, conditions) ==
    \A k \in DOMAIN conditions.d : PyEq(DictGet(request_body, k), conditions.d[k])

(***************************************************************************)
(* Authentication configuration (auth.json), as loaded by the server.      *)
(***************************************************************************)
Session(sid, csrf, user) == [session_id |-> sid, csrf_token |-> csrf, username |-> user]

AuthMethodNames ==
    {"api_key", "csrf_token", "basic_auth", "oidc_auth_code",
     "oidc_client_credentials", "vmanage_session", "system_api_key"}

\* auth_config["authentication_methods"]
AuthMethods ==
    [m \in AuthMethodNames |->
        CASE m = "api_key" -> [valid_keys |-> <<"k1", "{dev}">>]
          [] m = "csrf_token" -> [valid_keys |-> <<"t1", "t2">>]
          [] m = "system_api_key" -> [valid_keys |-> <<"sys1">>]
          [] m = "basic_auth" ->
                [valid_credentials |-> <<[username |-> "u", password |-> "p"]>>]
          [] m = "oidc_auth_code" -> [valid_tokens |-> <<[access_token |-> "b1"]>>]
          [] m = "oidc_client_credentials" ->
                [valid_tokens |-> <<[access_token |-> "b2"]>>]
          [] m = "vmanage_session" ->
                [session_cookie |-> "JSESSIONID",
                 valid_sessions |-> <<Session("s1", "c1", "u1"), Session("s2", "c2", "u2")>>]]

InList(x, s) == \E i \in DOMAIN s : s[i] = x

(***************************************************************************)
(* Requests.  A header that is absent and a header that is empty are both  *)
(* the empty string: every test the code makes on them is a truth test.    *)
(* The Cookie header is absent, one "name=value" pair, or a bare value.    *)
(***************************************************************************)
NoCookie == [form |-> "absent", name |-> "", value |-> ""]
CookiePair(n, v) == [form |-> "pair", name |-> n, value |-> v]
CookieBare(v) == [form |-> "bare", name |-> "", value |-> v]

NoBasic == [present |-> FALSE, username |-> "", password |-> ""]
Basic(u, p) == [present |-> TRUE, username |-> u, password |-> p]

\* request.cookies.get(name): Starlette parses the Cookie header; a chunk
\* without "=" is stored under the empty name
CookiesGet(req, name) ==
    IF req.cookie.form = "pair" /\ req.cookie.name = name THEN req.cookie.value ELSE ""

\* the raw Cookie header as the code's tests see it: is it present, does it
\* contain "=", and the two halves of split("=", 1)
CookieHeaderPresent(req) == req.cookie.form # "absent"
CookieHeaderHasEq(req) == req.cookie.form = "pair"

NoAuth == [res |-> {}, err |-> <<>>]
AuthOk(key) == [res |-> {key}, err |-> <<>>]
AuthErr(msg) == [res |-> {}, err |-> <<msg>>]

\* verify_auth, lines 203-212
check_api_key(auth_methods, req) ==
    IF InList("api_key", auth_methods)
    THEN IF req.api_key # ""
         THEN IF InList(req.api_key, AuthMethods["api_key"].valid_keys)
              THEN AuthOk("api_key") ELSE AuthErr("Invalid API key")
         ELSE AuthErr("Missing API key")
    ELSE NoAuth

\* verify_auth, lines 215-224
check_csrf_token(auth_methods, req) ==
    IF InList("csrf_token", auth_methods)
    THEN IF req.csrf_token # ""
         THEN IF InList(req.csrf_token, AuthMethods["csrf_token"].valid_keys)
              THEN AuthOk("csrf_token") ELSE AuthErr("Invalid CSRF token")
         ELSE AuthErr("Missing CSRF token")
    ELSE NoAuth

\* verify_auth, lines 227-241
check_basic_auth(auth_methods, req) ==
    IF InList("basic_auth", auth_methods)
    THEN IF req.basic.present
         THEN IF \E i \in DOMAIN AuthMethods["basic_auth"].valid_credentials :
                    LET cred == AuthMethods["basic_auth"].valid_credentials[i]
                    IN cred.username = req.basic.username /\ cred.password = req.basic.password
              THEN AuthOk("basic_auth") ELSE AuthErr("Invalid credentials")
         ELSE AuthErr("Missing basic auth credentials")
    ELSE NoAuth

OidcMethods == <<"oidc_auth_code", "oidc_client_credentials">>

\* verify_auth, lines 244-261: the token is looked up in the pools of the
\* oidc methods the endpoint requires
check_bearer(auth_methods, req) ==
    IF \E i \in DOMAIN OidcMethods : InList(OidcMethods[i], auth_methods)
    THEN IF req.bearer # ""
         THEN IF \E i \in DOMAIN OidcMethods :
                    /\ InList(OidcMethods[i], auth_methods)
                    /\ \E j \in DOMAIN AuthMethods[OidcMethods[i]].valid_tokens :
                          AuthMethods[OidcMethods[i]].valid_tokens[j].access_token = req.bearer
              THEN AuthOk("oidc") ELSE AuthErr("Invalid bearer token")
         ELSE AuthErr("Missing bearer token")
    ELSE NoAuth

\* verify_auth, lines 270-283: the session id of the request
auth_session_id(req) ==
    LET session_cookie_name == AuthMethods["vmanage_session"].session_cookie
        fromCookies == CookiesGet(req, session_cookie_name)
    IN IF fromCookies = "" /\ CookieHeaderPresent(req)
       THEN IF CookieHeaderHasEq(req)
            THEN IF req.cookie.name = session_cookie_name THEN req.cookie.value ELSE fromCookies
            ELSE req.cookie.value
       ELSE fromCookies

\* verify_auth, lines 264-296
check_vmanage_session(auth_methods, req) ==
    IF InList("vmanage_session", auth_methods)
    THEN IF auth_session_id(req) # ""
         THEN IF \E i \in DOMAIN AuthMethods["vmanage_session"].valid_sessions :
                    AuthMethods["vmanage_session"].valid_sessions[i].session_id = auth_session_id(req)
              THEN AuthOk("vmanage_session") ELSE AuthErr("Invalid session cookie")
         ELSE AuthErr("Missing session cookie")
    ELSE NoAuth

\* verify_auth, lines 301-304
ResultKey(method) ==
    IF method \in {"oidc_auth_code", "oidc_client_credentials"} THEN "oidc" ELSE method

\* every check of verify_auth in the order the code makes them
AuthChecks(auth_methods, req) ==
    <<check_api_key(auth_methods, req), check_csrf_token(auth_methods, req),
      check_basic_auth(auth_methods, req), check_bearer(auth_methods, req),
      check_vmanage_session(auth_methods, req)>>

RECURSIVE JoinErrors(_)
JoinErrors(checks) ==
    IF checks = <<>> THEN <<>> ELSE Head(checks).err \o JoinErrors(Tail(checks))

\* verify_auth: status 401 with the required methods and the collected
\* errors when a required method has no result, else the results
verify_auth(auth_methods, req) ==
    LET checks == AuthChecks(auth_methods, req)
        auth_results == UNION {checks[i].res : i \in DOMAIN checks}
        auth_errors == JoinErrors(checks)
        missing_methods == SelectSeq(auth_methods, LAMBDA m : ResultKey(m) \notin auth_results)
    IN IF missing_methods # <<>>
       THEN [status_code |-> 401, required |-> auth_methods, errors |-> auth_errors,
             results |-> auth_results]
       ELSE [status_code |-> 200, required |-> auth_methods, errors |-> <<>>,
             results |-> auth_results]

\* check_required_headers: the first header whose value differs is reported
NoHeader == "<none>"
HeaderGet(headers, h) == IF h \in DOMAIN headers THEN headers[h] ELSE NoHeader

\* check_required_headers: TRUE when some required header differs, which the
\* handler answers with 400
check_required_headers(req, required_headers) ==
    \E h \in DOMAIN required_headers : HeaderGet(req.headers, h) # required_headers[h]

(***************************************************************************)
(* Response templates.  A string of the configuration is a sequence of     *)
(* pieces: literal text, a path token "{name}", a template token           *)
(* "{{name}}" or an auth token "${auth.method.selector[.property]}".       *)
(* A JSON value is a text, a dict (ordered items), a list or a scalar.     *)
(***************************************************************************)
Lit(s) == [p |-> "lit", s |-> s]
PathTok(name) == [p |-> "path", s |-> name]
Tmpl(name) == [p |-> "tmpl", s |-> name]
AuthTok(m, sel, prop) == [p |-> "auth", s |-> "", m |-> m, sel |-> sel, prop |-> prop]

Text(pieces) == [t |-> "text", v |-> pieces]
Dict(items) == [t |-> "dict", v |-> items]
List(items) == [t |-> "list", v |-> items]
Item(k, v) == [k |-> k, v |-> v]

\* the text a piece stands for
RenderPiece(pc) ==
    CASE pc.p = "lit" -> pc.s
      [] pc.p = "path" -> "{" \o pc.s \o "}"
      [] pc.p = "tmpl" -> "{{" \o pc.s \o "}}"
      [] pc.p = "auth" ->
            "${auth." \o pc.m \o "." \o pc.sel
                \o (IF pc.prop = "" THEN "" ELSE "." \o pc.prop) \o "}"

RECURSIVE Render(_)
Render(pieces) ==
    IF pieces = <<>> THEN "" ELSE RenderPiece(Head(pieces)) \o Render(Tail(pieces))

\* random.choice(seq) for the next value of the random source
Choice(seq, roll) == seq[((roll - 1) % Len(seq)) + 1]

CacheGet(c, k) == c[k]
CachePut(c, k, v) == [x \in DOMAIN c \cup {k} |-> IF x = k THEN v ELSE c[x]]
EmptyCache == [k \in {} |-> [key |-> ""]]

\* the text re.sub puts in place of a token, as the later passes over the
\* resolved string read it: a configured value "{name}" is a path token to
\* them, any other value literal text
Resolved(s) ==
    IF \E n \in {"dev"} : s = "{" \o n \o "}"
    THEN PathTok(CHOOSE n \in {"dev"} : s = "{" \o n \o "}")
    ELSE Lit(s)

\* a session's field for a placeholder property; str(session) for any other
SessionField(session, property_name) ==
    CASE property_name = "session_id" -> session.session_id
      [] property_name = "csrf_token" -> session.csrf_token
      [] property_name = "username" -> session.username
      [] OTHER -> "repr:" \o session.session_id

\* replace_placeholder, lines 94-107: selector current_session
current_session_value(tok, request_context) ==
    LET valid_sessions == AuthMethods["vmanage_session"].valid_sessions
        hits == {i \in DOMAIN valid_sessions :
                    valid_sessions[i].session_id = request_context.session_id}
    IN IF request_context.session_id # "" /\ hits # {}
            /\ tok.prop \in {"csrf_token", "session_id", "username"}
       THEN Resolved(SessionField(valid_sessions[CHOOSE i \in hits : \A j \in hits : i <= j], tok.prop))
       ELSE tok

\* the state a resolution pass threads through the tokens: the process-wide
\* cache and the values random.choice is still to return
ResState(c, rolls) == [cache |-> c, rolls |-> rolls]

\* replace_placeholder with a fresh random.choice for every token
replace_placeholder_reroll(tok, request_context, st) ==
    IF tok.m \notin DOMAIN AuthMethods THEN [out |-> tok, st |-> st]
    ELSE IF tok.m = "vmanage_session"
    THEN IF tok.sel = "current_session" /\ request_context.session_id # ""
         THEN [out |-> current_session_value(tok, request_context), st |-> st]
         ELSE IF tok.sel = "random_session"
         THEN LET valid_sessions == AuthMethods[tok.m].valid_sessions
              IN [out |-> Resolved(SessionField(Choice(valid_sessions, Head(st.rolls)), tok.prop)),
                  st |-> ResState(st.cache, Tail(st.rolls))]
         ELSE [out |-> tok, st |-> st]
    ELSE [out |-> tok, st |-> st]

\* replace_placeholder, lines 79-140
replace_placeholder(tok, request_context, st) ==
    LET cache_key == tok.m \o "." \o tok.sel
    IN
    IF tok.m \notin DOMAIN AuthMethods THEN [out |-> tok, st |-> st]
    ELSE IF tok.m = "vmanage_session"
    THEN IF tok.sel = "current_session" /\ request_context.session_id # ""
         THEN [out |-> current_session_value(tok, request_context), st |-> st]
         ELSE IF tok.sel = "random_session"
         THEN LET valid_sessions == AuthMethods[tok.m].valid_sessions
              IN IF cache_key \notin DOMAIN st.cache /\ valid_sessions = <<>>
                 THEN [out |-> tok, st |-> st]
                 ELSE LET st2 == IF cache_key \notin DOMAIN st.cache
                                 THEN ResState(CachePut(st.cache, cache_key,
                                                   Choice(valid_sessions, Head(st.rolls))),
                                               Tail(st.rolls))
                                 ELSE st
                      IN [out |-> Resolved(SessionField(CacheGet(st2.cache, cache_key), tok.prop)),
                          st |-> st2]
         ELSE [out |-> tok, st |-> st]
    ELSE IF tok.sel = "random_key"
    THEN LET valid_keys == IF "valid_keys" \in DOMAIN AuthMethods[tok.m]
                           THEN AuthMethods[tok.m].valid_keys ELSE <<>>
         IN IF cache_key \notin DOMAIN st.cache /\ valid_keys = <<>>
            THEN [out |-> tok, st |-> st]
            ELSE LET st2 == IF cache_key \notin DOMAIN st.cache
                            THEN ResState(CachePut(st.cache, cache_key,
                                              [key |-> Choice(valid_keys, Head(st.rolls))]),
                                          Tail(st.rolls))
                            ELSE st
                 IN [out |-> Resolved(CacheGet(st2.cache, cache_key).key), st |-> st2]
    ELSE [out |-> tok, st |-> st]

\* resolve_auth_placeholders on a string: re.sub over its tokens, left to right
RECURSIVE resolve_auth_placeholders(_, _, _)
resolve_auth_placeholders(pieces, request_context, st) ==
    IF pieces = <<>> THEN [out |-> <<>>, st |-> st]
    ELSE LET first == IF Head(pieces).p = "auth"
                      THEN replace_placeholder(Head(pieces), request_context, st)
                      ELSE [out |-> Head(pieces), st |-> st]
             rest == resolve_auth_placeholders(Tail(pieces), request_context, first.st)
         IN [out |-> <<first.out>> \o rest.out, st |-> rest.st]

\* the request context of a call that passes none
NoContext == [session_id |-> ""]

\* extract_request_context: the session id of the request, "" when the
\* context is the empty dict
extract_request_context(req) ==
    LET session_cookie_name == AuthMethods["vmanage_session"].session_cookie
        fromCookies == CookiesGet(req, session_cookie_name)
    IN [session_id |->
          IF fromCookies = "" /\ CookieHeaderPresent(req) /\ CookieHeaderHasEq(req)
                /\ req.cookie.name = session_cookie_name
          THEN req.cookie.value ELSE fromCookies]

ExactTemplates ==
    {"random_uuid", "current_timestamp", "timestamp", "date", "unix_timestamp",
     "unix_timestamp_ms"}

\* line 63: re.sub(r"\{(\w+)\}", "path_param_" + name) on one piece
PathParamPiece(pc) ==
    CASE pc.p = "path" -> Lit("path_param_" \o pc.s)
      [] pc.p = "tmpl" -> Lit("{path_param_" \o pc.s \o "}")
      [] OTHER -> pc

\* process_response_body, lines 46-65, on the resolved string
template_pass(pieces) ==
    IF Len(pieces) = 1 /\ pieces[1].p = "tmpl" /\ pieces[1].s \in ExactTemplates
    THEN <<Lit("<" \o pieces[1].s \o ">")>>
    ELSE [i \in DOMAIN pieces |-> PathParamPiece(pieces[i])]

\* process_response_body: dicts and lists are walked, strings resolved,
\* anything else is returned as it is
RECURSIVE process_response_body(_, _, _)
RECURSIVE process_items(_, _, _)
process_response_body(body, request_context, st) ==
    CASE body.t = "text" ->
            LET r == resolve_auth_placeholders(body.v, request_context, st)
            IN [out |-> Text(template_pass(r.out)), st |-> r.st]
      [] body.t \in {"dict", "list"} ->
            LET r == process_items(body.v, request_context, st)
            IN [out |-> [t |-> body.t, v |-> r.out], st |-> r.st]
      [] OTHER -> [out |-> body, st |-> st]
process_items(items, request_context, st) ==
    IF items = <<>> THEN [out |-> <<>>, st |-> st]
    ELSE LET h == Head(items)
             first == process_response_body(IF "k" \in DOMAIN h THEN h.v ELSE h,
                                            request_context, st)
             rest == process_items(Tail(items), request_context, first.st)
         IN [out |-> <<IF "k" \in DOMAIN h THEN Item(h.k, first.out) ELSE first.out>> \o rest.out,
             st |-> rest.st]

\* process_response_headers: the auth pass on every header value, with no
\* request context
RECURSIVE process_response_headers(_, _)
process_response_headers(headers, st) ==
    IF headers = <<>> THEN [out |-> <<>>, st |-> st]
    ELSE LET first == resolve_auth_placeholders(Head(headers).v, NoContext, st)
             rest == process_response_headers(Tail(headers), first.st)
         IN [out |-> <<Item(Head(headers).k, first.out)>> \o rest.out, st |-> rest.st]

(***************************************************************************)
(* Entity store (persistence/redis_client.py).  An entity name and an id   *)
(* are sequences of dot-free segments; the key "{entity_name}.{id}" is     *)
(* their concatenation.  A key set with SETEX is gone once its time to     *)
(* live has elapsed.                                                       *)
(***************************************************************************)
EntityTTL == 3600

StoreState(c, r, n) == [client |-> c, redis |-> r, nextId |-> n]

\* str(uuid.uuid4()): a value never drawn before
Uuid(n) == "id" \o ToString(n)

\* f"{entity_name}.{entity_id}"
EntityKey(entity_name, entity_id) == entity_name \o <<entity_id>>

EmptyRedis == [k \in {} |-> [value |-> None, expires |-> 0]]

\* the keys Redis still holds at time t
LiveKeys(r, t) == {k \in DOMAIN r : t < r[k].expires}

\* RedisClient.get_client: a client object once a ping has succeeded
get_redis_client(st, up) == st.client \/ up

Entity(entity_id, entity_name, t, data) ==
    [id |-> entity_id, entity_type |-> entity_name, created_at |-> t, data |-> data]

\* store_entity with a time to live of zero
store_entity_no_ttl(st, up, t, entity_name, data) ==
    LET entity_id == Uuid(st.nextId + 1)
    IN IF ~get_redis_client(st, up)
       THEN [status_code |-> 503, id |-> "", st |-> st]
       ELSE IF ~up
       THEN [status_code |-> 500, id |-> "", st |-> StoreState(TRUE, st.redis, st.nextId + 1)]
       ELSE [status_code |-> 200, id |-> entity_id,
             st |-> StoreState(TRUE,
                       [k \in DOMAIN st.redis \cup {EntityKey(entity_name, entity_id)} |->
                           IF k = EntityKey(entity_name, entity_id)
                           THEN [value |-> Entity(entity_id, entity_name, t, data),
                                 expires |-> t]
                           ELSE st.redis[k]],
                       st.nextId + 1)]

\* store_entity: 503 without a client, 500 when SETEX raises, else the id
store_entity(st, up, t, entity_name, data) ==
    LET entity_id == Uuid(st.nextId + 1)
    IN IF ~get_redis_client(st, up)
       THEN [status_code |-> 503, id |-> "", st |-> st]
       ELSE IF ~up
       THEN [status_code |-> 500, id |-> "", st |-> StoreState(TRUE, st.redis, st.nextId + 1)]
       ELSE [status_code |-> 200, id |-> entity_id,
             st |-> StoreState(TRUE,
                       [k \in DOMAIN st.redis \cup {EntityKey(entity_name, entity_id)} |->
                           IF k = EntityKey(entity_name, entity_id)
                           THEN [value |-> Entity(entity_id, entity_name, t, data),
                                 expires |-> t + EntityTTL]
                           ELSE st.redis[k]],
                       st.nextId + 1)]

NoEntity == [none |-> TRUE]

\* get_entity: None without a client, when GET raises and when the key is
\* absent
get_entity(st, up, t, entity_name, entity_id) ==
    IF ~get_redis_client(st, up) \/ ~up THEN NoEntity
    ELSE IF EntityKey(entity_name, entity_id) \in LiveKeys(st.redis, t)
    THEN st.redis[EntityKey(entity_name, entity_id)].value
    ELSE NoEntity

\* KEYS "{entity_name}.*": the keys that start with the name and a dot
KeysMatching(r, t, entity_name) ==
    {k \in LiveKeys(r, t) :
        Len(k) > Len(entity_name) /\ SubSeq(k, 1, Len(entity_name)) = entity_name}

\* list_entities: the values under KEYS "{entity_name}.*", [] on any failure
list_entities(st, up, t, entity_name) ==
    IF ~get_redis_client(st, up) \/ ~up THEN {}
    ELSE {st.redis[k].value : k \in KeysMatching(st.redis, t, entity_name)}

\* delete_entity: TRUE when DEL removed the key
delete_entity(st, up, t, entity_name, entity_id) ==
    IF ~get_redis_client(st, up) \/ ~up
    THEN [deleted |-> FALSE, st |-> StoreState(get_redis_client(st, up), st.redis, st.nextId)]
    ELSE [deleted |-> EntityKey(entity_name, entity_id) \in LiveKeys(st.redis, t),
          st |-> StoreState(TRUE,
                    [k \in DOMAIN st.redis \ {EntityKey(entity_name, entity_id)} |-> st.redis[k]],
                    st.nextId)]

\* flush_cache: FLUSHDB
flush_cache(st, up) ==
    IF ~get_redis_client(st, up) \/ ~up
    THEN [flushed |-> FALSE, st |-> StoreState(get_redis_client(st, up), st.redis, st.nextId)]
    ELSE [flushed |-> TRUE, st |-> StoreState(TRUE, EmptyRedis, st.nextId)]

\* the client object after a call that only reads
AfterRead(st, up) == StoreState(get_redis_client(st, up), st.redis, st.nextId)

(***************************************************************************)
(* Endpoint configuration and handler selection (routes/setup.py).         *)
(***************************************************************************)
NoPersistence == [entity_name |-> <<>>, action |-> ""]
Persistence(name, action) == [entity_name |-> name, action |-> action]

\* a response rule; status_code 0 stands for a response without the key
Rule(conditions, status, body, headers) ==
    [body_conditions |-> conditions,
     response |-> [status_code |-> status, body |-> body, headers |-> headers]]

\* a path segment: literal text or "{name}"
Seg(s) == [param |-> FALSE, name |-> s]
Param(s) == [param |-> TRUE, name |-> s]

\* the generic request model of create_request_model
GenericSchema == [props |-> {"name", "value", "data"}, required |-> {}]

\* path_param_names of the handler factories
PathParamNames(path) ==
    LET idx == {i \in DOMAIN path : path[i].param}
    IN [i \in idx |-> path[i].name]

HasPathParam(path, name) == \E i \in DOMAIN path : path[i].param /\ path[i].name = name

\* models/dynamic.py needs_request_body
needs_request_body(ep) ==
    IF ep.form_content_type THEN FALSE
    ELSE IF ep.method \in {"POST", "PUT", "PATCH"} /\ ep.persistence.action \in {"create", "update"}
    THEN TRUE
    ELSE \E i \in DOMAIN ep.responses : Truthy(ep.responses[i].body_conditions)

\* setup_routes, lines 32-44: the handler factory used for an endpoint
HandlerKind(ep) ==
    IF ep.form_parameters THEN "form"
    ELSE IF needs_request_body(ep) THEN "with_body"
    ELSE "plain"

\* the test a handler variant makes on one rule
rule_matches(rule, request_body, kind) ==
    \/ rule.body_conditions = NoConditions
    \/ IF kind = "with_body"
       THEN inline_conditions(request_body, rule.body_conditions)
       ELSE check_conditions(request_body, rule.body_conditions)

\* a dispatch loop that keeps the last rule that matches
RECURSIVE last_match(_, _, _, _)
last_match(responses, request_body, kind, i) ==
    IF i > Len(responses) THEN 0
    ELSE LET later == last_match(responses, request_body, kind, i + 1)
         IN IF later # 0 THEN later
            ELSE IF rule_matches(responses[i], request_body, kind) THEN i ELSE 0

\* the dispatch loop "for rule in responses: if ...: return", from rule i on:
\* the index of the rule it returns from, 0 when it falls through
RECURSIVE first_match(_, _, _, _)
first_match(responses, request_body, kind, i) ==
    IF i > Len(responses) THEN 0
    ELSE IF rule_matches(responses[i], request_body, kind) THEN i
    ELSE first_match(responses, request_body, kind, i + 1)

(***************************************************************************)
(* Responses.                                                              *)
(***************************************************************************)
NoHeaders == <<>>

Response(status, body, headers, rule, kind) ==
    [status_code |-> status, body |-> body, headers |-> headers, rule |-> rule, kind |-> kind]

ErrorBody(msg) == Dict(<<Item("error", Str(msg))>>)

ItemIndex(items, k) == {i \in DOMAIN items : items[i].k = k}

\* dict[k] = v on an ordered dict
SetItem(items, k, v) ==
    IF ItemIndex(items, k) = {} THEN Append(items, Item(k, v))
    ELSE [i \in DOMAIN items |-> IF items[i].k = k THEN Item(k, v) ELSE items[i]]

\* dict.update(d) for a dict d given as a function
RECURSIVE UpdateItems(_, _, _)
UpdateItems(items, d, keys) ==
    IF keys = {} THEN items
    ELSE LET k == CHOOSE x \in keys : TRUE
         IN UpdateItems(SetItem(items, k, d[k]), d, keys \ {k})

\* {"id": entity_id, **request_body} merged into a processed body
MergeEntity(body, entity_id, request_body) ==
    IF body.t = "dict"
    THEN Dict(UpdateItems(SetItem(body.v, "id", [t |-> "id", v |-> entity_id]),
                          request_body, DOMAIN request_body))
    ELSE body

\* body_str.replace("{key}", value) for every path parameter, on one piece
SubstPiece(pc, names, path_params) ==
    IF pc.p = "path" /\ (\E i \in DOMAIN names : names[i] = pc.s) /\ pc.s \in DOMAIN path_params
    THEN Lit(path_params[pc.s]) ELSE pc

\* create_handler, lines 244-250: the substitution on the serialized body
RECURSIVE SubstPathParams(_, _, _)
SubstPathParams(body, names, path_params) ==
    CASE body.t = "text" ->
            Text([i \in DOMAIN body.v |-> SubstPiece(body.v[i], names, path_params)])
      [] body.t = "dict" ->
            Dict([i \in DOMAIN body.v |->
                    Item(body.v[i].k, SubstPathParams(body.v[i].v, names, path_params))])
      [] body.t = "list" ->
            List([i \in DOMAIN body.v |-> SubstPathParams(body.v[i], names, path_params)])
      [] OTHER -> body

(***************************************************************************)
(* Handlers (handlers/routes.py).  A handler run is given the cache, the   *)
(* store, the values random.choice will return, whether Redis is up and    *)
(* the time; it yields the response, the cache and the store.              *)
(***************************************************************************)
HandlerResult(response, c, st) == [response |-> response, cache |-> c, st |-> st]

DefaultStatus(status, default) == IF status = 0 THEN default ELSE status

StoreErrorDetail(status) ==
    IF status = 503 THEN "Redis not available" ELSE "Failed to store entity"

\* create_handler, lines 231-252
plain_rules(ep, req, request_body, c, st, rolls) ==
    LET i == first_match(ep.responses, request_body, "plain", 1)
        response_data == ep.responses[i].response
        h == process_response_headers(response_data.headers, ResState(c, rolls))
        b == process_response_body(response_data.body, extract_request_context(req), h.st)
    IN IF i = 0
       THEN HandlerResult(Response(500, ErrorBody("Server Configuration Error"), NoHeaders,
                                   0, "no_rule_500"), c, st)
       ELSE HandlerResult(
                Response(DefaultStatus(response_data.status_code, 200),
                         SubstPathParams(b.out, PathParamNames(ep.path), req.path_params),
                         h.out, i, "rule"),
                b.st.cache, st)

\* create_handler, lines 201-215: the entity id of a retrieve
retrieve_entity_id(ep, req) ==
    LET get(k) == IF k \in DOMAIN req.path_params THEN req.path_params[k] ELSE ""
    IN IF HasPathParam(ep.path, "product_id") THEN get("product_id")
       ELSE IF HasPathParam(ep.path, "customer_id") THEN get("customer_id")
       ELSE IF HasPathParam(ep.path, "order_id") THEN get("order_id")
       ELSE IF HasPathParam(ep.path, "item_id") THEN get("item_id")
       ELSE IF get("id") # "" THEN get("id") ELSE get("entity_id")

\* create_handler, lines 185-252: from the parsed body on
plain_after_body(ep, req, request_body, c, st, rolls, up, t) ==
    LET entity_name == ep.persistence.entity_name
        action == ep.persistence.action
    IN
    IF req.method = "POST" /\ entity_name # <<>> /\ action = "create"
    THEN LET s == store_entity(st, up, t, entity_name, request_body)
         IN IF s.status_code = 200
            THEN HandlerResult(
                    Response(201,
                             Dict(UpdateItems(<<Item("id", [t |-> "id", v |-> s.id]),
                                                Item("entity_type", [t |-> "name", v |-> entity_name]),
                                                Item("created_at", [t |-> "time", v |-> t])>>,
                                              request_body, DOMAIN request_body)),
                             NoHeaders, 0, "created_201"), c, s.st)
            ELSE HandlerResult(Response(s.status_code, ErrorBody(StoreErrorDetail(s.status_code)),
                                        NoHeaders, 0, "store_error"), c, s.st)
    ELSE IF req.method = "GET" /\ entity_name # <<>> /\ action = "retrieve"
    THEN LET entity_id == retrieve_entity_id(ep, req)
             entity == get_entity(st, up, t, entity_name, entity_id)
         IN IF entity_id = ""
            THEN HandlerResult(Response(400, ErrorBody("Missing entity ID in path"), NoHeaders,
                                        0, "missing_id_400"), c, st)
            ELSE IF entity # NoEntity
            THEN HandlerResult(Response(200, [t |-> "entity", v |-> entity], NoHeaders,
                                        0, "retrieved_200"), c, AfterRead(st, up))
            ELSE HandlerResult(Response(404, ErrorBody("not found"), NoHeaders,
                                        0, "not_found_404"), c, AfterRead(st, up))
    ELSE IF req.method = "GET" /\ entity_name # <<>> /\ action = "list"
    THEN HandlerResult(Response(200, [t |-> "entities", v |-> list_entities(st, up, t, entity_name)],
                                NoHeaders, 0, "list_200"), c, AfterRead(st, up))
    ELSE plain_rules(ep, req, request_body, c, st, rolls)

\* create_handler, lines 171-183: does the handler read a body
plain_reads_body(req) == req.method # "GET" /\ req.content_length

\* create_handler, lines 161-169 and, for a request whose body is not read,
\* the rest of the handler
plain_start(ep, req, st, rolls, up, t) ==
    IF check_required_headers(req, ep.required_headers)
    THEN HandlerResult(Response(400, ErrorBody("Missing or invalid header"), NoHeaders,
                                0, "header_400"), EmptyCache, st)
    ELSE plain_after_body(ep, req, EmptyDict, EmptyCache, st, rolls, up, t)

\* create_handler, lines 172-252: from the await of the body on
plain_resume(ep, req, c, st, rolls, up, t) ==
    IF req.malformed
    THEN HandlerResult(Response(400, ErrorBody("Invalid request body format."), NoHeaders,
                                0, "bad_body_400"), c, st)
    ELSE plain_after_body(ep, req, req.body, c, st, rolls, up, t)

\* body.model_dump(): the fields of the request model, None for a field the
\* request leaves out
model_dump(schema, body) == [k \in schema.props |-> DictGet(body, k)]

\* create_handler_with_body, lines 78-118: the create and update branches
with_body_persist(ep, req, request_body, c, st, rolls, up, t, default_status, with_headers, fallback) ==
    LET s == store_entity(st, up, t, ep.persistence.entity_name, request_body)
        i == first_match(ep.responses, request_body, "with_body", 1)
        response_data == ep.responses[i].response
        b == process_response_body(response_data.body, extract_request_context(req),
                                   ResState(c, rolls))
        h == IF with_headers THEN process_response_headers(response_data.headers, b.st)
             ELSE [out |-> NoHeaders, st |-> b.st]
    IN IF s.status_code # 200
       THEN HandlerResult(Response(s.status_code, ErrorBody(StoreErrorDetail(s.status_code)),
                                   NoHeaders, 0, "store_error"), c, s.st)
       ELSE IF i = 0
       THEN HandlerResult(
                Response(default_status,
                         Dict(UpdateItems(<<Item("id", [t |-> "id", v |-> s.id]),
                                            Item("entity_type",
                                                 [t |-> "name", v |-> ep.persistence.entity_name])>>,
                                          request_body, DOMAIN request_body)),
                         NoHeaders, 0, fallback), c, s.st)
       ELSE HandlerResult(
                Response(DefaultStatus(response_data.status_code, default_status),
                         MergeEntity(b.out, s.id, request_body), h.out, i, "rule"),
                h.st.cache, s.st)

\* create_handler_with_body, lines 120-129: the rule's response as configured
with_body_rules(ep, request_body, c, st) ==
    LET i == first_match(ep.responses, request_body, "with_body", 1)
        response_data == ep.responses[i].response
    IN IF i = 0
       THEN HandlerResult(Response(400, ErrorBody("No matching response condition found"),
                                   NoHeaders, 0, "no_rule_400"), c, st)
       ELSE IF response_data.status_code = 0
       THEN HandlerResult(Response(500, ErrorBody("Internal Server Error"), NoHeaders,
                                   i, "unhandled_500"), c, st)
       ELSE HandlerResult(Response(response_data.status_code, response_data.body,
                                   response_data.headers, i, "rule"), c, st)

\* create_handler_with_body.handler
with_body_handler(ep, req, st, rolls, up, t) ==
    LET request_body == model_dump(ep.schema, req.body)
        entity_name == ep.persistence.entity_name
        action == ep.persistence.action
    IN
    IF check_required_headers(req, ep.required_headers)
    THEN HandlerResult(Response(400, ErrorBody("Missing or invalid header"), NoHeaders,
                                0, "header_400"), EmptyCache, st)
    ELSE IF req.method = "POST" /\ entity_name # <<>> /\ action = "create"
    THEN with_body_persist(ep, req, request_body, EmptyCache, st, rolls, up, t, 201, TRUE,
                           "create_fallback_201")
    ELSE IF req.method \in {"PUT", "PATCH"} /\ entity_name # <<>> /\ action = "update"
    THEN with_body_persist(ep, req, request_body, EmptyCache, st, rolls, up, t, 200, FALSE,
                           "update_fallback_200")
    ELSE with_body_rules(ep, request_body, EmptyCache, st)

\* create_form_handler.form_handler
form_handler(ep, req, st, rolls) ==
    LET form_data == req.body
        i == first_match(ep.responses, form_data, "form", 1)
        response_data == ep.responses[i].response
        b == process_response_body(response_data.body, extract_request_context(req),
                                   ResState(EmptyCache, rolls))
        h == process_response_headers(response_data.headers, b.st)
    IN IF i = 0
       THEN HandlerResult(Response(500, ErrorBody("Server Configuration Error"), NoHeaders,
                                   0, "no_rule_500"), EmptyCache, st)
       ELSE HandlerResult(Response(DefaultStatus(response_data.status_code, 200), b.out, h.out,
                                   i, "rule"), h.st.cache, st)

(***************************************************************************)
(* Bounds of the model.                                                    *)
(***************************************************************************)
MaxInFlight == 1    \* handler coroutines suspended while another request is served
NumRolls == 2       \* values random.choice can return during one request
MaxIds == 2         \* uuid4 values drawn
MaxTicks == 4       \* clock steps
TickSeconds == 1200 \* length of a clock step

\* random.choice(seq) returns any of the Len(seq) entries: a roll is an index
\* into the longest list the configuration draws from
RollRange == Len(AuthMethods["vmanage_session"].valid_sessions)

Rolls == [1..NumRolls -> 1..RollRange]

IsRandomTok(pc) == pc.p = "auth" /\ pc.sel \in {"random_session", "random_key"}

\* the pieces of the strings of a JSON value
RECURSIVE PiecesOf(_)
PiecesOf(body) ==
    CASE body.t = "text" -> {body.v[i] : i \in DOMAIN body.v}
      [] body.t = "dict" -> UNION {PiecesOf(body.v[i].v) : i \in DOMAIN body.v}
      [] body.t = "list" -> UNION {PiecesOf(body.v[i]) : i \in DOMAIN body.v}
      [] OTHER -> {}

HeaderPieces(headers) == UNION {{headers[i].v[j] : j \in DOMAIN headers[i].v} : i \in DOMAIN headers}

RulePieces(rule) == PiecesOf(rule.response.body) \cup HeaderPieces(rule.response.headers)

\* the values random.choice may return while an endpoint's handler runs; one
\* fixed sequence where no rule of the endpoint has a random placeholder
RollsOf(ep) ==
    IF \E i \in DOMAIN ep.responses : \E pc \in RulePieces(ep.responses[i]) : IsRandomTok(pc)
    THEN Rolls ELSE {[i \in 1..NumRolls |-> 1]}

(***************************************************************************)
(* The configurations the server is started with.                          *)
(***************************************************************************)
Endpoint(path, method, authentication, required_headers, persistence, responses, form, ctype, schema) ==
    [path |-> path, method |-> method, authentication |-> authentication,
     required_headers |-> required_headers, persistence |-> persistence,
     responses |-> responses, form_parameters |-> form,
     form_content_type |-> ctype, schema |-> schema]

RandomSession(prop) == AuthTok("vmanage_session", "random_session", prop)

KindIs(v) == Conditions([k \in {"kind"} |-> Str(v)])
LoginIs(u, pw) ==
    Conditions([k \in {"j_username", "j_password"} |-> IF k = "j_username" THEN Str(u) ELSE Str(pw)])

OkBody == Dict(<<Item("status", Text(<<Lit("ok")>>))>>)
ItemBody == Dict(<<Item("item", Text(<<PathTok("id")>>)),
                   Item("link", Text(<<Lit("/items/"), PathTok("id")>>)),
                   Item("count", PyInt("1"))>>)
SessionBody == Dict(<<Item("session", Text(<<RandomSession("session_id")>>)),
                      Item("token", Text(<<RandomSession("csrf_token")>>))>>)
SessionHeaders == <<Item("Set-Cookie", <<Lit("JSESSIONID="), RandomSession("session_id")>>)>>
KeyBody == Dict(<<Item("key", Text(<<AuthTok("api_key", "random_key", "")>>)),
                  Item("again", List(<<Text(<<AuthTok("api_key", "random_key", "")>>)>>))>>)

NoRequired == [h \in {} |-> ""]
RequireClient == [h \in {"X-Client"} |-> "cli"]

\* GET /items/{id}: one wildcard rule whose body names the path parameter
ItemsEndpoint ==
    Endpoint(<<Seg("items"), Param("id")>>, "GET", <<>>, NoRequired, NoPersistence,
             <<Rule(NoConditions, 200, ItemBody, NoHeaders)>>, FALSE, FALSE, GenericSchema)

\* POST /j_security_check: the form login of the vManage configuration
LoginEndpoint ==
    Endpoint(<<Seg("j_security_check")>>, "POST", <<>>, NoRequired, NoPersistence,
             <<Rule(LoginIs("admin", "admin"), 200, SessionBody, SessionHeaders),
               Rule(NoConditions, 0, OkBody, NoHeaders)>>, TRUE, TRUE, GenericSchema)

\* POST /token: a wildcard rule with random placeholders, body read by the handler
TokenEndpoint ==
    Endpoint(<<Seg("token")>>, "POST", <<>>, NoRequired, NoPersistence,
             <<Rule(NoConditions, 200, SessionBody, SessionHeaders)>>, FALSE, FALSE, GenericSchema)

\* GET /key: a wildcard rule that names one random key twice
KeyEndpoint ==
    Endpoint(<<Seg("key")>>, "GET", <<>>, NoRequired, NoPersistence,
             <<Rule(NoConditions, 200, KeyBody, NoHeaders)>>, FALSE, FALSE, GenericSchema)

\* POST /kind: the only rule has body_conditions {"kind": "a"}
KindEndpoint(method, persistence, responses) ==
    Endpoint(<<Seg("kind")>>, method, <<>>, NoRequired, persistence, responses, FALSE, FALSE,
             [props |-> {"kind"}, required |-> {}])

KindRules ==
    {<<Rule(KindIs("a"), 200, OkBody, NoHeaders)>>,
     <<Rule(KindIs("a"), 200, OkBody, NoHeaders), Rule(KindIs("a"), 202, ItemBody, NoHeaders)>>,
     <<Rule(KindIs("b"), 201, OkBody, NoHeaders), Rule(NoConditions, 200, SessionBody, NoHeaders),
       Rule(KindIs("a"), 202, OkBody, NoHeaders)>>,
     <<Rule(Conditions(EmptyDict), 200, OkBody, NoHeaders),
       Rule(NoConditions, 202, ItemBody, NoHeaders)>>,
     <<>>}

\* /secure: an endpoint behind authentication and a required header
SecureEndpoint(method, authentication, required_headers) ==
    Endpoint(<<Seg("secure")>>, method, authentication, required_headers, NoPersistence,
             <<Rule(NoConditions, 200, OkBody, NoHeaders)>>, FALSE, FALSE, GenericSchema)

\* POST /orders stores the body (create_handler, the endpoint declares a
\* form content type); GET /orders/{name} retrieves by the path parameter
StoreEndpoints(name) ==
    <<Endpoint(<<Seg("orders")>>, "POST", <<>>, NoRequired, Persistence(<<"orders">>, "create"),
               <<Rule(NoConditions, 200, OkBody, NoHeaders)>>, FALSE, TRUE, GenericSchema),
      Endpoint(<<Seg("orders"), Param(name)>>, "GET", <<>>, NoRequired,
               Persistence(<<"orders">>, "retrieve"), <<>>, FALSE, FALSE, GenericSchema)>>

\* a rule whose body and header name the session of the request, and whose
\* body holds tokens outside the supported combinations: a method that is
\* not configured, an unknown selector, an unknown and a missing property
WhoRule(conditions) ==
    Rule(conditions, 200,
         Dict(<<Item("user", Text(<<AuthTok("vmanage_session", "current_session", "username")>>)),
                Item("csrf", Text(<<Lit("t="),
                                    AuthTok("vmanage_session", "current_session", "csrf_token")>>)),
                Item("sid", Text(<<AuthTok("vmanage_session", "current_session", "session_id")>>)),
                Item("odd", List(<<Text(<<AuthTok("ldap", "current_session", "username")>>),
                                   Text(<<AuthTok("api_key", "first_key", "")>>),
                                   Text(<<AuthTok("vmanage_session", "current_session", "role")>>),
                                   Text(<<AuthTok("vmanage_session", "random_session", "role")>>),
                                   Text(<<AuthTok("vmanage_session", "random_session", "")>>)>>))>>),
         <<Item("X-XSRF-TOKEN", <<AuthTok("vmanage_session", "current_session", "csrf_token")>>)>>)

AuthLists ==
    {<<"api_key">>, <<"api_key", "csrf_token">>, <<"basic_auth">>,
     <<"oidc_auth_code">>, <<"oidc_auth_code", "oidc_client_credentials">>,
     <<"vmanage_session">>, <<"vmanage_session", "csrf_token">>, <<"system_api_key">>,
     <<"basic_auth", "oidc_client_credentials", "api_key">>}

Configs ==
    {<<ItemsEndpoint, LoginEndpoint, KeyEndpoint>>, <<TokenEndpoint, LoginEndpoint>>}
    \cup {<<KindEndpoint("POST", NoPersistence, r)>> : r \in KindRules}
    \cup {<<Endpoint(<<Seg("plain")>>, "POST", <<>>, NoRequired, NoPersistence, r, FALSE, TRUE,
                     GenericSchema)>> : r \in KindRules}
    \cup {<<KindEndpoint("POST", Persistence(<<"orders">>, "create"), r),
            KindEndpoint("PUT", Persistence(<<"orders">>, "update"), r)>> : r \in KindRules}
    \cup {<<SecureEndpoint("GET", a, h)>> : a \in AuthLists, h \in {NoRequired, RequireClient}}
    \cup {StoreEndpoints(name) : name \in {"order_id", "user_id"}}
    \cup {<<Endpoint(<<Seg("who")>>, "GET", <<"vmanage_session">>, NoRequired, NoPersistence,
                     <<WhoRule(NoConditions)>>, FALSE, FALSE, GenericSchema)>>,
          <<KindEndpoint("POST", NoPersistence, <<WhoRule(KindIs("a"))>>)>>,
          <<Endpoint(<<Seg("j_security_check")>>, "POST", <<>>, NoRequired, NoPersistence,
                     <<WhoRule(NoConditions)>>, TRUE, TRUE, GenericSchema)>>}

(***************************************************************************)
(* The requests a client sends to an endpoint.  The framework binds the    *)
(* route's method and path parameters; for the handler variants whose      *)
(* body it parses itself, only requests it accepts reach the code.         *)
(***************************************************************************)
HeaderValues(ep) ==
    IF ep.required_headers = NoRequired THEN {NoRequired}
    ELSE {NoRequired, RequireClient, [h \in {"X-Client"} |-> "other"]}

PathParamsOf(ep) ==
    [{ep.path[i].name : i \in {j \in DOMAIN ep.path : ep.path[j].param}} ->
        IF ep.persistence.action = "retrieve" THEN {Uuid(1), "42"} ELSE {"42", "7"}]

\* bodies are varied where a rule of the endpoint or its store reads them
BodiesOf(ep) ==
    IF ep.method = "GET" THEN {EmptyDict}
    ELSE IF ep.form_parameters
    THEN {[k \in {"j_username", "j_password"} |-> IF k = "j_username" THEN Str(u) ELSE Str(pw)] :
            u \in {"admin", "guest"}, pw \in {"admin"}}
    ELSE IF ep.persistence = NoPersistence
            /\ \A i \in DOMAIN ep.responses : ep.responses[i].body_conditions = NoConditions
    THEN {EmptyDict, [k \in {"kind"} |-> Str("a")]}
    ELSE {EmptyDict} \cup {[k \in {"kind"} |-> v] : v \in {Str("a"), Str("b")}}
            \cup {[k \in {"kind", "id"} |-> IF k = "kind" THEN Str("a") ELSE Str("mine")]}

\* the credentials a model request carries: every combination for an
\* endpoint behind authentication, the session cookie alone otherwise
CredentialsOf(ep) ==
    IF ep.authentication = <<>>
    THEN {<<"", "", NoBasic, "", c>> : c \in {NoCookie, CookiePair("JSESSIONID", "s1")}}
    ELSE {"", "k1", "sys1", "bad"}
            \X {"", "t1", "bad"}
            \X {NoBasic, Basic("u", "p"), Basic("u", "bad")}
            \X {"", "b1", "b2", "bad"}
            \X {NoCookie, CookiePair("JSESSIONID", "s1"), CookiePair("JSESSIONID", "bad"),
                CookieBare("s2"), CookiePair("OTHER", "s1")}

\* a handler that parses the body itself may be sent a malformed one
MalformedOf(ep) ==
    IF HandlerKind(ep) = "plain" /\ ep.method # "GET" THEN BOOLEAN ELSE {FALSE}

\* the request to endpoint ep with the given credentials, headers, body and
\* path parameters; a request other than GET carries a content-length
RequestOf(ep, cr, headers, malformed, body, path_params) ==
    [method |-> ep.method, api_key |-> cr[1], csrf_token |-> cr[2], basic |-> cr[3],
     bearer |-> cr[4], cookie |-> cr[5], headers |-> headers,
     content_length |-> ep.method # "GET", malformed |-> malformed, body |-> body,
     path_params |-> path_params]

(***************************************************************************)
(* The server: one event loop runs the handlers; a handler runs without    *)
(* interruption except where it awaits.                                    *)
(***************************************************************************)
Idle == [busy |-> FALSE]
Suspended(e, req) == [busy |-> TRUE, ep |-> e, req |-> req]

NoResp == [ep |-> 0]

\* what a client observes of one request: the response, whether the
\* handler body ran, and the cache the resolution of its placeholders found
Observed(e, req, response, ran, found, awaited) ==
    [ep |-> e, req |-> req, response |-> response, ran |-> ran, found |-> found,
     awaited |-> awaited]

Store == StoreState(client, redis, nextId)

\* the entities a handler run has stored
NewlyIssued(st, entity_name, data) ==
    IF st.nextId # nextId /\ Uuid(st.nextId) \in {k[Len(k)] : k \in DOMAIN st.redis \ DOMAIN redis}
    THEN {[entity_name |-> entity_name, id |-> Uuid(st.nextId), data |-> data, at |-> now]}
    ELSE {}

Init ==
    /\ servers = <<>>
    /\ processes = <<>>
    /\ endpoints \in Configs
    /\ cache = EmptyCache
    /\ inflight = [s \in 1..MaxInFlight |-> Idle]
    /\ resp = NoResp
    /\ client = FALSE
    /\ redis = EmptyRedis
    /\ reachable \in BOOLEAN
    /\ now = 0
    /\ nextId = 0
    /\ issued = {}
    /\ call = [fn |-> ""]
    /\ ret = [fn |-> ""]

\* the route's dependency verify_auth rejects the request: the handler is
\* not called
Reject(e, req) ==
    /\ endpoints[e].authentication # <<>>
    /\ verify_auth(endpoints[e].authentication, req).status_code = 401
    /\ resp' = Observed(e, req,
                        Response(401, [t |-> "auth_failed",
                                       v |-> verify_auth(endpoints[e].authentication, req)],
                                 NoHeaders, 0, "auth_401"),
                        FALSE, cache, FALSE)
    /\ UNCHANGED <<servers, processes, endpoints, cache, inflight, client, redis, reachable, now, nextId, issued,
                   call, ret>>

Admitted(e, req) ==
    \/ endpoints[e].authentication = <<>>
    \/ verify_auth(endpoints[e].authentication, req).status_code = 200

\* the handler result of a request that is served without suspending
RunHandler(ep, req, rolls) ==
    CASE HandlerKind(ep) = "form" -> form_handler(ep, req, Store, rolls)
      [] HandlerKind(ep) = "with_body" -> with_body_handler(ep, req, Store, rolls, reachable, now)
      [] OTHER ->
            IF check_required_headers(req, ep.required_headers) \/ ~plain_reads_body(req)
            THEN plain_start(ep, req, Store, rolls, reachable, now)
            ELSE plain_resume(ep, req, EmptyCache, Store, rolls, reachable, now)

\* a pass over the body that rebuilds strings only and hands back every
\* other value as it was given
returns_argument_but_str(body) == body.t # "text"

\* process_response_body hands back the object it was given only in its last
\* branch, for a value that is neither a dict, a list nor a str; a dict, a
\* list and a str are rebuilt
returns_argument(body) == body.t \notin {"dict", "list", "text"}

\* create_handler_with_body, lines 89-92 and 110-113: response_body.update(...)
\* writes into the dict process_response_body returned; the endpoint
\* configuration after the handler has run
config_after(ep, req, response) ==
    IF /\ HandlerKind(ep) = "with_body"
       /\ response.kind = "rule"
       /\ ep.persistence.entity_name # <<>>
       /\ \/ req.method = "POST" /\ ep.persistence.action = "create"
          \/ req.method \in {"PUT", "PATCH"} /\ ep.persistence.action = "update"
       /\ returns_argument(ep.responses[response.rule].response.body)
       /\ response.body.t = "dict"
    THEN [ep EXCEPT !.responses[response.rule].response.body = response.body]
    ELSE ep

Finish(e, req, r, found, awaited) ==
    /\ resp' = Observed(e, req, r.response, TRUE, found, awaited)
    /\ endpoints' = [endpoints EXCEPT ![e] = config_after(endpoints[e], req, r.response)]
    /\ cache' = r.cache
    /\ client' = r.st.client
    /\ redis' = r.st.redis
    /\ nextId' = r.st.nextId
    /\ issued' = issued \cup NewlyIssued(r.st, endpoints[e].persistence.entity_name,
                                         IF HandlerKind(endpoints[e]) = "with_body"
                                         THEN model_dump(endpoints[e].schema, req.body)
                                         ELSE req.body)

\* a request is handled from the clearing of the cache to its response
Serve(e, req, rolls) ==
    /\ Admitted(e, req)
    /\ nextId < MaxIds
    /\ Finish(e, req, RunHandler(endpoints[e], req, rolls), EmptyCache, FALSE)
    /\ UNCHANGED <<servers, processes, inflight, reachable, now, call, ret>>

\* create_handler clears the cache, passes the header check and suspends
\* at "await request.form()" or "await request.json()"
Suspend(e, req, s) ==
    /\ Admitted(e, req)
    /\ HandlerKind(endpoints[e]) = "plain"
    /\ ~check_required_headers(req, endpoints[e].required_headers)
    /\ plain_reads_body(req)
    /\ inflight[s] = Idle
    /\ inflight' = [inflight EXCEPT ![s] = Suspended(e, req)]
    /\ cache' = EmptyCache
    /\ UNCHANGED <<servers, processes, endpoints, resp, client, redis, reachable, now, nextId, issued, call, ret>>

\* the suspended create_handler gets the body and runs to its response
Resume(s, rolls) ==
    /\ inflight[s].busy
    /\ nextId < MaxIds
    /\ Finish(inflight[s].ep, inflight[s].req,
              plain_resume(endpoints[inflight[s].ep], inflight[s].req, cache, Store, rolls,
                           reachable, now),
              cache, TRUE)
    /\ inflight' = [inflight EXCEPT ![s] = Idle]
    /\ UNCHANGED <<servers, processes, reachable, now, call, ret>>

\* time passes; it is observable only through the stored entities
Tick ==
    /\ resp = NoResp
    /\ redis # EmptyRedis
    /\ now < MaxTicks * TickSeconds
    /\ now' = now + TickSeconds
    /\ UNCHANGED <<servers, processes, endpoints, cache, inflight, resp, client, redis, reachable, nextId, issued,
                   call, ret>>

\* the Redis server goes down
RedisDown ==
    /\ resp = NoResp
    /\ reachable
    /\ reachable' = FALSE
    /\ UNCHANGED <<servers, processes, endpoints, cache, inflight, resp, client, redis, now, nextId, issued, call, ret>>

\* the Redis server comes back
RedisUp ==
    /\ resp = NoResp
    /\ ~reachable
    /\ reachable' = TRUE
    /\ UNCHANGED <<servers, processes, endpoints, cache, inflight, resp, client, redis, now, nextId, issued, call, ret>>

\* the client has received the response; the next event is observed in turn
Deliver ==
    /\ resp # NoResp
    /\ resp' = NoResp
    /\ UNCHANGED <<servers, processes, endpoints, cache, inflight, client, redis, reachable, now, nextId, issued,
                   call, ret>>

Next ==
    \/ /\ resp = NoResp
       /\ \E e \in DOMAIN endpoints :
             \E cr \in CredentialsOf(endpoints[e]), h \in HeaderValues(endpoints[e]),
                bad \in MalformedOf(endpoints[e]), b \in BodiesOf(endpoints[e]),
                pp \in PathParamsOf(endpoints[e]) :
                LET req == RequestOf(endpoints[e], cr, h, bad, b, pp)
                IN \/ \E rolls \in RollsOf(endpoints[e]) : Serve(e, req, rolls)
                   \/ Reject(e, req)
                   \/ \E s \in 1..MaxInFlight : Suspend(e, req, s)
    \/ /\ resp = NoResp
       /\ \E s \in 1..MaxInFlight :
             /\ inflight[s].busy
             /\ \E rolls \in RollsOf(endpoints[inflight[s].ep]) : Resume(s, rolls)
    \/ Deliver
    \/ Tick
    \/ RedisDown
    \/ RedisUp

Spec == Init /\ [][Next]_vars

(***************************************************************************)
(* Direct calls of check_conditions: the body and the conditions are drawn *)
(* from the dicts over two keys whose values are 1, 2, true and null.      *)
(***************************************************************************)
MatchDicts == UNION {[K -> {PyInt("1"), PyInt("2"), PyTrue, None}] : K \in SUBSET {"a", "b"}}

NoCall == [fn |-> ""]

InitMatch ==
    /\ servers = <<>>
    /\ processes = <<>>
    /\ endpoints = <<>>
    /\ cache = EmptyCache
    /\ inflight = [s \in 1..MaxInFlight |-> Idle]
    /\ resp = NoResp
    /\ client = FALSE
    /\ redis = EmptyRedis
    /\ reachable = FALSE
    /\ now = 0
    /\ nextId = 0
    /\ issued = {}
    /\ call \in {[fn |-> "check_conditions", data |-> d, conditions |-> c] :
                    d \in MatchDicts, c \in {NoConditions} \cup {Conditions(x) : x \in MatchDicts}}
    /\ ret = NoCall

CallCheckConditions ==
    /\ call.fn = "check_conditions"
    /\ ret = NoCall
    /\ ret' = [fn |-> call.fn, value |-> check_conditions(call.data, call.conditions)]
    /\ UNCHANGED <<servers, processes, endpoints, cache, inflight, resp, client, redis, reachable, now, nextId,
                   issued, call>>

NextMatch == CallCheckConditions

SpecMatch == InitMatch /\ [][NextMatch]_vars

(***************************************************************************)
(* Direct calls of the entity store.  A call and its result are observed   *)
(* in call and ret until the caller takes them; issued holds the entities  *)
(* that were stored and have not been deleted since.                       *)
(***************************************************************************)
StoreNames == {<<"orders">>, <<"orders", "eu">>}
StoreData == {Dict(<<>>), Dict(<<Item("qty", PyInt("1"))>>)}
StoreIds == {Uuid(n) : n \in 1..MaxIds}

InitStore ==
    /\ servers = <<>>
    /\ processes = <<>>
    /\ endpoints = <<>>
    /\ cache = EmptyCache
    /\ inflight = [s \in 1..MaxInFlight |-> Idle]
    /\ resp = NoResp
    /\ client = FALSE
    /\ redis = EmptyRedis
    /\ reachable \in BOOLEAN
    /\ now = 0
    /\ nextId = 0
    /\ issued = {}
    /\ call = NoCall
    /\ ret = NoCall

SetStore(st) ==
    /\ client' = st.client
    /\ redis' = st.redis
    /\ nextId' = st.nextId

CallStoreEntity(entity_name, data) ==
    LET r == store_entity(Store, reachable, now, entity_name, data)
    IN /\ call = NoCall
       /\ nextId < MaxIds
       /\ call' = [fn |-> "store_entity", entity_name |-> entity_name, data |-> data]
       /\ ret' = [fn |-> "store_entity", status_code |-> r.status_code, value |-> r.id]
       /\ SetStore(r.st)
       /\ issued' = issued \cup NewlyIssued(r.st, entity_name, data)
       /\ UNCHANGED <<servers, processes, endpoints, cache, inflight, resp, reachable, now>>

CallGetEntity(entity_name, entity_id) ==
    /\ call = NoCall
    /\ call' = [fn |-> "get_entity", entity_name |-> entity_name, id |-> entity_id]
    /\ ret' = [fn |-> "get_entity",
               value |-> get_entity(Store, reachable, now, entity_name, entity_id)]
    /\ SetStore(AfterRead(Store, reachable))
    /\ UNCHANGED <<servers, processes, endpoints, cache, inflight, resp, reachable, now, issued>>

CallListEntities(entity_name) ==
    /\ call = NoCall
    /\ call' = [fn |-> "list_entities", entity_name |-> entity_name]
    /\ ret' = [fn |-> "list_entities",
               value |-> list_entities(Store, reachable, now, entity_name)]
    /\ SetStore(AfterRead(Store, reachable))
    /\ UNCHANGED <<servers, processes, endpoints, cache, inflight, resp, reachable, now, issued>>

CallDeleteEntity(entity_name, entity_id) ==
    LET r == delete_entity(Store, reachable, now, entity_name, entity_id)
    IN /\ call = NoCall
       /\ call' = [fn |-> "delete_entity", entity_name |-> entity_name, id |-> entity_id]
       /\ ret' = [fn |-> "delete_entity", value |-> r.deleted]
       /\ SetStore(r.st)
       /\ issued' = {x \in issued : EntityKey(x.entity_name, x.id) \in DOMAIN r.st.redis}
       /\ UNCHANGED <<servers, processes, endpoints, cache, inflight, resp, reachable, now>>

CallFlushCache ==
    LET r == flush_cache(Store, reachable)
    IN /\ call = NoCall
       /\ call' = [fn |-> "flush_cache"]
       /\ ret' = [fn |-> "flush_cache", value |-> r.flushed]
       /\ SetStore(r.st)
       /\ issued' = {x \in issued : EntityKey(x.entity_name, x.id) \in DOMAIN r.st.redis}
       /\ UNCHANGED <<servers, processes, endpoints, cache, inflight, resp, reachable, now>>

\* the caller takes the result
Return ==
    /\ call # NoCall
    /\ call' = NoCall
    /\ ret' = NoCall
    /\ UNCHANGED <<servers, processes, endpoints, cache, inflight, resp, client, redis, reachable, now, nextId,
                   issued>>

NextStore ==
    \/ \E entity_name \in StoreNames, data \in StoreData : CallStoreEntity(entity_name, data)
    \/ \E entity_name \in StoreNames, entity_id \in StoreIds :
          CallGetEntity(entity_name, entity_id)
    \/ \E entity_name \in StoreNames : CallListEntities(entity_name)
    \/ \E entity_name \in StoreNames, entity_id \in StoreIds :
          CallDeleteEntity(entity_name, entity_id)
    \/ CallFlushCache
    \/ Return
    \/ call = NoCall /\ Tick
    \/ call = NoCall /\ RedisDown
    \/ call = NoCall /\ RedisUp

SpecStore == InitStore /\ [][NextStore]_vars

(***************************************************************************)
(* SystemAuthMiddleware.  A path is the sequence of its characters; the    *)
(* request headers are a dict, so that an absent X-API-Key and an empty    *)
(* one differ.  A response is what call_next returns for the request, or   *)
(* the JSONResponse of the middleware itself.                              *)
(***************************************************************************)
\* str.startswith
startswith(s, prefix) == Len(s) >= Len(prefix) /\ SubSeq(s, 1, Len(prefix)) = prefix

\* __init__ and _load_valid_keys
SystemAuthMiddleware(api_config, auth_methods) ==
    LET system_config == IF "system" \in DOMAIN api_config THEN api_config.system ELSE EmptyDict
        auth_method == IF "auth_method" \in DOMAIN system_config
                       THEN system_config.auth_method ELSE "system_api_key"
        system_auth == IF auth_method \in DOMAIN auth_methods
                       THEN auth_methods[auth_method] ELSE EmptyDict
    IN [protection_enabled |-> IF "protect_endpoints" \in DOMAIN system_config
                               THEN system_config.protect_endpoints ELSE FALSE,
        auth_method |-> auth_method,
        valid_keys |-> IF "valid_keys" \in DOMAIN system_auth THEN system_auth.valid_keys ELSE <<>>,
        protected_prefixes |-> << <<"/", "a", "d", "m", "i", "n", "/">>,
                                  <<"/", "s", "y", "s", "t", "e", "m", "/">> >>]

_is_protected_endpoint(self, path) ==
    \E i \in DOMAIN self.protected_prefixes : startswith(path, self.protected_prefixes[i])

_validate_api_key(self, api_key) == InList(api_key, self.valid_keys)

\* the response of the rest of the application to the request handed on
call_next(request) == [by |-> "call_next", request |-> request]

JSONResponse(status_code, detail, headers) ==
    [by |-> "middleware", status_code |-> status_code, detail |-> detail, headers |-> headers]

\* dispatch that hands on every request that carries some key
dispatch_any_key(self, request) ==
    IF ~self.protection_enabled THEN call_next(request)
    ELSE IF ~_is_protected_endpoint(self, request.path) THEN call_next(request)
    ELSE IF "X-API-Key" \notin DOMAIN request.headers \/ request.headers["X-API-Key"] = ""
    THEN JSONResponse(401, "Missing X-API-Key header for system endpoint",
                      [k \in {"WWW-Authenticate"} |-> "X-API-Key"])
    ELSE call_next(request)

\* dispatch, lines 88-126; "not api_key" holds for None and for ""
dispatch(self, request) ==
    IF ~self.protection_enabled THEN call_next(request)
    ELSE IF ~_is_protected_endpoint(self, request.path) THEN call_next(request)
    ELSE IF "X-API-Key" \notin DOMAIN request.headers \/ request.headers["X-API-Key"] = ""
    THEN JSONResponse(401, "Missing X-API-Key header for system endpoint",
                      [k \in {"WWW-Authenticate"} |-> "X-API-Key"])
    ELSE IF ~_validate_api_key(self, request.headers["X-API-Key"])
    THEN JSONResponse(403, "Invalid API key for system endpoint", EmptyDict)
    ELSE call_next(request)

\* the api.json files the middleware is built from: with and without the
\* "system" section and each of its two settings
GateMethods == {"system_api_key", "api_key", "basic_auth", "none"}

ApiConfigs ==
    {EmptyDict, [system |-> EmptyDict]}
    \cup {[system |-> [protect_endpoints |-> p]] : p \in BOOLEAN}
    \cup {[system |-> [auth_method |-> m]] : m \in GateMethods}
    \cup {[system |-> [protect_endpoints |-> p, auth_method |-> m]] :
             p \in BOOLEAN, m \in GateMethods}

GatePaths ==
    {<<"/", "a", "d", "m", "i", "n", "/", "c">>, <<"/", "a", "d", "m", "i", "n", "/">>,
     <<"/", "a", "d", "m", "i", "n">>, <<"/", "a", "d", "m", "i", "n", "s", "/">>,
     <<"/", "s", "y", "s", "t", "e", "m", "/", "l">>, <<"/", "a", "/", "a", "d", "m", "i", "n", "/">>,
     <<"/", "h">>}

GateHeaders ==
    {EmptyDict} \cup {[k \in {"X-API-Key"} |-> v] : v \in {"", "sys1", "k1", "bad"}}

InitGate ==
    /\ servers = <<>>
    /\ processes = <<>>
    /\ endpoints = <<>>
    /\ cache = EmptyCache
    /\ inflight = [s \in 1..MaxInFlight |-> Idle]
    /\ resp = NoResp
    /\ client = FALSE
    /\ redis = EmptyRedis
    /\ reachable = FALSE
    /\ now = 0
    /\ nextId = 0
    /\ issued = {}
    /\ call = NoCall
    /\ ret = NoCall

\* a middleware built from api_config receives the request
CallDispatch(api_config, request) ==
    LET self == SystemAuthMiddleware(api_config, AuthMethods)
    IN /\ call = NoCall
       /\ call' = [fn |-> "dispatch", api_config |-> api_config, self |-> self,
                   request |-> request]
       /\ ret' = [fn |-> "dispatch", response |-> dispatch(self, request)]
       /\ UNCHANGED <<servers, processes, endpoints, cache, inflight, resp, client, redis, reachable, now, nextId,
                      issued>>

NextGate ==
    \/ \E api_config \in ApiConfigs, path \in GatePaths, headers \in GateHeaders :
          CallDispatch(api_config, [path |-> path, headers |-> headers])
    \/ Return

SpecGate == InitGate /\ [][NextGate]_vars

(***************************************************************************)
(* Log search (cli/infrastructure/log_search.py).  A log entry is a line   *)
(* that LogEntry.from_line has parsed: its timestamp, its correlation id   *)
(* and its message.  The message is the line the logging middleware wrote  *)
(* (REQUEST, Request Body, RESPONSE) with the path or status code it       *)
(* names and the markers the logged payload itself holds.  A               *)
(* since_timestamp of 0 is None.                                           *)
(***************************************************************************)
LogEntry(timestamp, correlation_id, line, path, status_code, payload) ==
    [timestamp |-> timestamp, correlation_id |-> correlation_id, line |-> line, path |-> path,
     status_code |-> status_code, payload |-> payload]

\* marker in entry.message
InMessage(marker, entry) ==
    \/ marker \in entry.payload
    \/ entry.line = "request" /\ marker = "REQUEST:"
    \/ entry.line = "response" /\ marker \in {"RESPONSE:", "Time:"}
    \/ entry.line = "request_body" /\ marker = "Request Body:"

\* _parse_log_file: the entries not earlier than since_timestamp
parse_log_file(log_file, since_timestamp) ==
    SelectSeq(log_file, LAMBDA entry : ~(since_timestamp # 0 /\ entry.timestamp < since_timestamp))

\* the correlation ids in the order a dict first gets them as keys
RECURSIVE KeysInOrder(_, _)
KeysInOrder(entries, seen) ==
    IF entries = <<>> THEN <<>>
    ELSE IF Head(entries).correlation_id \in seen THEN KeysInOrder(Tail(entries), seen)
    ELSE <<Head(entries).correlation_id>>
            \o KeysInOrder(Tail(entries), seen \cup {Head(entries).correlation_id})

\* the last entry of a group the loop of lines 131-141 assigns to a role
LastAs(entries, role) ==
    LET as(entry) == IF InMessage("REQUEST:", entry) THEN "request"
                     ELSE IF InMessage("RESPONSE:", entry) /\ InMessage("Time:", entry)
                     THEN "response" ELSE "other"
        hits == {i \in DOMAIN entries : as(entries[i]) = role}
    IN IF hits = {} THEN <<>> ELSE <<entries[CHOOSE i \in hits : \A j \in hits : j <= i]>>

\* RequestResponsePair.from_log_entries: no pair when the request entry is
\* not a REQUEST line; status 200 without a RESPONSE line
from_log_entries(request_entry, response_entry) ==
    IF request_entry.line # "request" THEN <<>>
    ELSE <<[correlation_id |-> request_entry.correlation_id, path |-> request_entry.path,
            timestamp |-> request_entry.timestamp,
            status_code |-> IF response_entry # <<>> /\ response_entry[1].line = "response"
                            THEN response_entry[1].status_code ELSE 200]>>

\* _match_requests_responses
RECURSIVE match_groups(_, _)
match_groups(log_entries, ids) ==
    IF ids = <<>> THEN <<>>
    ELSE LET entries == SelectSeq(log_entries, LAMBDA e : e.correlation_id = Head(ids))
             request_entry == LastAs(entries, "request")
         IN (IF request_entry = <<>> THEN <<>>
             ELSE from_log_entries(request_entry[1], LastAs(entries, "response")))
            \o match_groups(log_entries, Tail(ids))

match_requests_responses(log_entries) == match_groups(log_entries, KeysInOrder(log_entries, {}))

\* re.compile(path_regex, re.IGNORECASE).search(path) for the patterns and
\* the paths of the model
re_search(path_regex, path) ==
    CASE path_regex = ".*" -> TRUE
      [] path_regex = "/items" -> path \in {"/items/1", "/Items/2"}
      [] OTHER -> FALSE

\* list.sort(key=timestamp, reverse=True): stable, the newest first
RECURSIVE sort_newest_first(_)
sort_newest_first(pairs) ==
    IF pairs = <<>> THEN <<>>
    ELSE LET newest == {i \in DOMAIN pairs : \A j \in DOMAIN pairs :
                                                 pairs[j].timestamp <= pairs[i].timestamp}
             i == CHOOSE k \in newest : \A j \in newest : k <= j
         IN <<pairs[i]>> \o sort_newest_first(SubSeq(pairs, 1, i - 1) \o SubSeq(pairs, i + 1, Len(pairs)))

\* search_logs, lines 26-55, with _filter_by_path_regex and
\* _calculate_status_summary
search_logs(log_file, path_regex, since_timestamp) ==
    LET pairs == match_requests_responses(parse_log_file(log_file, since_timestamp))
        matched_pairs == sort_newest_first(
                             SelectSeq(pairs, LAMBDA pair : re_search(path_regex, pair.path)))
    IN [total_requests |-> Len(matched_pairs),
        matched_requests |-> matched_pairs,
        status_code_summary |->
            [c \in {matched_pairs[i].status_code : i \in DOMAIN matched_pairs} |->
                Cardinality({i \in DOMAIN matched_pairs : matched_pairs[i].status_code = c})]]

MaxLines == 4       \* lines of the log file
MaxLogTime == 2     \* distinct timestamps of the log file

InitLogs ==
    /\ servers = <<>>
    /\ processes = <<>>
    /\ endpoints = <<>>
    /\ cache = EmptyCache
    /\ inflight = [s \in 1..MaxInFlight |-> Idle]
    /\ resp = NoResp
    /\ client = FALSE
    /\ redis = EmptyRedis
    /\ reachable = FALSE
    /\ now = 0
    /\ nextId = 0
    /\ issued = {}
    /\ call = [fn |-> "search_logs", log_file |-> <<>>]
    /\ ret = NoCall

\* the logging middleware writes a line of a request: the REQUEST line
\* first, under a correlation id of its own, then the body and the RESPONSE
\* line; timestamps never decrease along the file
WriteLine(entry) ==
    LET log_file == call.log_file
        written == {log_file[i].line : i \in {j \in DOMAIN log_file :
                                                  log_file[j].correlation_id = entry.correlation_id}}
    IN /\ ret = NoCall
       /\ Len(log_file) < MaxLines
       /\ log_file # <<>> => log_file[Len(log_file)].timestamp <= entry.timestamp
       /\ entry.line \notin written
       /\ entry.line # "request" => "request" \in written
       /\ entry.line = "request_body" => "response" \notin written
       /\ call' = [call EXCEPT !.log_file = Append(log_file, entry)]
       /\ UNCHANGED <<servers, processes, endpoints, cache, inflight, resp, client, redis, reachable, now, nextId,
                      issued, ret>>

CallSearchLogs(path_regex, since_timestamp) ==
    /\ ret = NoCall
    /\ ret' = [fn |-> "search_logs", path_regex |-> path_regex,
               since_timestamp |-> since_timestamp,
               value |-> search_logs(call.log_file, path_regex, since_timestamp)]
    /\ UNCHANGED <<servers, processes, endpoints, cache, inflight, resp, client, redis, reachable, now, nextId,
                   issued, call>>

NextLogs ==
    \/ \E t \in 1..MaxLogTime, id \in {"a1", "b2"} :
          \/ \E path \in {"/items/1", "/Items/2", "/api/x"} :
                WriteLine(LogEntry(t, id, "request", path, 0, {}))
          \/ \E payload \in {{}, {"REQUEST:"}} :
                WriteLine(LogEntry(t, id, "request_body", "", 0, payload))
          \/ \E status_code \in {200, 404} :
                WriteLine(LogEntry(t, id, "response", "", status_code, {}))
    \/ \E path_regex \in {".*", "/items"}, since_timestamp \in 0..MaxLogTime :
          CallSearchLogs(path_regex, since_timestamp)

SpecLogs == InitLogs /\ [][NextLogs]_vars

(***************************************************************************)
(* The server management commands of the CLI.  servers is the list kept in *)
(* .server_state/servers.json; processes[pid] is the server process the     *)
(* CLI started as pid: its configuration, the port it listens on and       *)
(* whether it still runs.                                                   *)
(***************************************************************************)
MaxPids == 3

\* SystemProcessRepository.find_next_available_port: start_port and the
\* number of ports it tries (100 in the source)
start_port == 8000
max_attempts == 2

PortRange == start_port..(start_port + max_attempts - 1)
ConfigNames == {"basic", "vmanage"}

\* ServerInstance.to_dict: the fields of a tracked instance the commands read
ServerInstance(config_name, port, pid, status) ==
    [config |-> config_name, port |-> port, pid |-> pid, status |-> status]

NoInstance == ServerInstance("", 0, 0, "")

\* a variant of save that drops an entry only when both its configuration
\* and its port are those of the new instance
save_same_config_and_port(servers_data, instance) ==
    LET kept(s) == s.config # instance.config \/ s.port # instance.port
    IN Append(SelectSeq(servers_data, kept), instance)

\* FileSystemServerInstanceRepository.save
save(servers_data, instance) ==
    LET kept(s) == s.config # instance.config /\ s.port # instance.port
    IN Append(SelectSeq(servers_data, kept), instance)

\* FileSystemServerInstanceRepository.find_by_config: the first entry of the
\* configuration, None (NoInstance) without one
find_by_config(servers_data, config_name) ==
    LET hits == {i \in DOMAIN servers_data : servers_data[i].config = config_name}
    IN IF hits = {} THEN NoInstance
       ELSE servers_data[CHOOSE i \in hits : \A j \in hits : i <= j]

\* FileSystemServerInstanceRepository.remove_by_id
remove_by_id(servers_data, pid) ==
    LET kept(s) == s.pid # pid
    IN SelectSeq(servers_data, kept)

\* FileSystemServerInstanceRepository.remove
remove(servers_data, instance) == remove_by_id(servers_data, instance.pid)

\* ServerInstance.is_running, on the entry as read from the file
is_running(instance) == instance.status = "running"

\* SystemProcessRepository.exists
exists(procs, pid) == pid \in DOMAIN procs /\ procs[pid].alive

\* SystemProcessRepository.find_by_port: TRUE when the port cannot be bound
find_by_port(procs, port) == \E pid \in DOMAIN procs : procs[pid].alive /\ procs[pid].port = port

\* SystemProcessRepository.find_next_available_port, 0 when it raises
find_next_available_port(procs) ==
    LET free == {port \in PortRange : ~find_by_port(procs, port)}
    IN IF free = {} THEN 0 ELSE CHOOSE port \in free : \A q \in free : port <= q

\* SystemProcessRepository.terminate: the process table afterwards
terminate(procs, pid) ==
    IF exists(procs, pid) THEN [procs EXCEPT ![pid].alive = FALSE] ELSE procs

\* StartServerUseCase.execute; port 0 stands for port=None.  The result is
\* the error raised, or "started" with the tracked list and the process table
\* after the start
StartServerUseCase(servers_data, procs, config_name, port) ==
    LET existing == find_by_config(servers_data, config_name)
        chosen == IF port = 0 THEN find_next_available_port(procs) ELSE port
        pid == Len(procs) + 1
        instance == ServerInstance(config_name, chosen, pid, "running")
        raised(error) == [value |-> error, servers |-> servers_data, processes |-> procs]
    IN IF existing # NoInstance /\ is_running(existing) THEN raised("already running")
       ELSE IF port = 0 /\ chosen = 0 THEN raised("no available port")
       ELSE IF port # 0 /\ find_by_port(procs, port) THEN raised("port in use")
       ELSE [value |-> "started", servers |-> save(servers_data, instance),
             processes |-> Append(procs, [config |-> config_name, port |-> chosen, alive |-> TRUE])]

\* StopServerUseCase.execute_by_config
StopServerUseCase(servers_data, procs, config_name) ==
    LET instance == find_by_config(servers_data, config_name)
    IN IF instance = NoInstance
       THEN [value |-> "no server found", servers |-> servers_data, processes |-> procs]
       ELSE [value |-> "stopped", servers |-> remove(servers_data, instance),
             processes |-> terminate(procs, instance.pid)]

\* ListServersUseCase.execute: the tracked list after the dead entries were
\* removed, which holds the instances it returns
RECURSIVE ListServersUseCase(_, _, _)
ListServersUseCase(servers_data, procs, instances) ==
    IF instances = <<>> THEN servers_data
    ELSE ListServersUseCase(IF exists(procs, Head(instances).pid) THEN servers_data
                            ELSE remove(servers_data, Head(instances)),
                            procs, Tail(instances))

InitServers ==
    /\ endpoints = <<>>
    /\ cache = EmptyCache
    /\ inflight = [s \in 1..MaxInFlight |-> Idle]
    /\ resp = NoResp
    /\ client = FALSE
    /\ redis = EmptyRedis
    /\ reachable = FALSE
    /\ now = 0
    /\ nextId = 0
    /\ issued = {}
    /\ call = NoCall
    /\ ret = NoCall
    /\ servers = <<>>
    /\ processes = <<>>

CallStart(config_name, port) ==
    LET r == StartServerUseCase(servers, processes, config_name, port)
    IN /\ call = NoCall
       /\ Len(processes) < MaxPids
       /\ call' = [fn |-> "start", config_name |-> config_name, port |-> port]
       /\ ret' = [fn |-> "start", value |-> r.value]
       /\ servers' = r.servers
       /\ processes' = r.processes
       /\ UNCHANGED <<endpoints, cache, inflight, resp, client, redis, reachable, now, nextId,
                      issued>>

CallStop(config_name) ==
    LET r == StopServerUseCase(servers, processes, config_name)
    IN /\ call = NoCall
       /\ call' = [fn |-> "stop", config_name |-> config_name]
       /\ ret' = [fn |-> "stop", value |-> r.value]
       /\ servers' = r.servers
       /\ processes' = r.processes
       /\ UNCHANGED <<endpoints, cache, inflight, resp, client, redis, reachable, now, nextId,
                      issued>>

CallList ==
    /\ call = NoCall
    /\ call' = [fn |-> "list"]
    /\ servers' = ListServersUseCase(servers, processes, servers)
    /\ ret' = [fn |-> "list", value |-> servers']
    /\ UNCHANGED <<endpoints, cache, inflight, resp, client, redis, reachable, now, nextId,
                   issued, processes>>

\* a server process exits on its own: it crashes or is killed from outside
ProcessExit(pid) ==
    /\ call = NoCall
    /\ exists(processes, pid)
    /\ processes' = [processes EXCEPT ![pid].alive = FALSE]
    /\ UNCHANGED <<endpoints, cache, inflight, resp, client, redis, reachable, now, nextId,
                   issued, call, ret, servers>>

NextServers ==
    \/ \E config_name \in ConfigNames, port \in {0} \cup PortRange : CallStart(config_name, port)
    \/ \E config_name \in ConfigNames : CallStop(config_name)
    \/ CallList
    \/ \E pid \in 1..MaxPids : ProcessExit(pid)
    \/ Return

SpecServers == InitServers /\ [][NextServers]_vars

(***************************************************************************)
(* Direct calls of FileSystemServerInstanceRepository on the state file,   *)
(* which _ensure_state_dir creates with an empty list.                      *)
(***************************************************************************)
Instances ==
    {ServerInstance(config_name, port, pid, status) :
        config_name \in ConfigNames \cup {"persistence"}, port \in PortRange,
        pid \in 1..MaxPids, status \in {"running"}}

InitRepo ==
    /\ endpoints = <<>>
    /\ cache = EmptyCache
    /\ inflight = [s \in 1..MaxInFlight |-> Idle]
    /\ resp = NoResp
    /\ client = FALSE
    /\ redis = EmptyRedis
    /\ reachable = FALSE
    /\ now = 0
    /\ nextId = 0
    /\ issued = {}
    /\ call = NoCall
    /\ ret = NoCall
    /\ servers = <<>>
    /\ processes = <<>>

CallSave(instance) ==
    /\ call = NoCall
    /\ call' = [fn |-> "save", instance |-> instance]
    /\ ret' = [fn |-> "save"]
    /\ servers' = save(servers, instance)
    /\ UNCHANGED <<endpoints, cache, inflight, resp, client, redis, reachable, now, nextId,
                   issued, processes>>

CallRemove(instance) ==
    /\ call = NoCall
    /\ call' = [fn |-> "remove", instance |-> instance]
    /\ ret' = [fn |-> "remove"]
    /\ servers' = remove(servers, instance)
    /\ UNCHANGED <<endpoints, cache, inflight, resp, client, redis, reachable, now, nextId,
                   issued, processes>>

CallRemoveById(pid) ==
    /\ call = NoCall
    /\ call' = [fn |-> "remove_by_id", pid |-> pid]
    /\ ret' = [fn |-> "remove_by_id"]
    /\ servers' = remove_by_id(servers, pid)
    /\ UNCHANGED <<endpoints, cache, inflight, resp, client, redis, reachable, now, nextId,
                   issued, processes>>

NextRepo ==
    \/ \E instance \in Instances : CallSave(instance)
    \/ \E instance \in Instances : CallRemove(instance)
    \/ \E pid \in 1..MaxPids : CallRemoveById(pid)
    \/ Return

SpecRepo == InitRepo /\ [][NextRepo]_vars

(***************************************************************************)
(* Vocabulary of the properties.                                           *)
(***************************************************************************)
\* the endpoint and the matched rule of the observed response
RespEndpoint == endpoints[resp.ep]
RespRule == RespEndpoint.responses[resp.response.rule]
FromRule == resp # NoResp /\ resp.response.kind = "rule"

\* the body the handler variant of an endpoint tests the rules against
SeenBody(ep, req) ==
    CASE HandlerKind(ep) = "with_body" -> model_dump(ep.schema, req.body)
      [] HandlerKind(ep) = "form" -> req.body
      [] OTHER -> IF plain_reads_body(req) THEN req.body ELSE EmptyDict

\* the contract of the Condition Matcher: every key of the conditions is in
\* the body with exactly that value
Satisfies(body, conditions) ==
    \A k \in DOMAIN conditions.d : k \in DOMAIN body /\ body[k] = conditions.d[k]

\* the pairs (configured piece, returned piece) at the same place of a
\* configured value and the value returned for it
RECURSIVE PiecePairs(_, _)
PiecePairs(conf, out) ==
    CASE conf.t = "text" /\ out.t = "text" /\ Len(conf.v) = Len(out.v) ->
            {<<conf.v[i], out.v[i]>> : i \in DOMAIN conf.v}
      [] conf.t = "dict" /\ out.t = "dict" ->
            UNION {UNION {PiecePairs(conf.v[i].v, out.v[j].v) : j \in ItemIndex(out.v, conf.v[i].k)} :
                      i \in DOMAIN conf.v}
      [] conf.t = "list" /\ out.t = "list" /\ Len(conf.v) = Len(out.v) ->
            UNION {PiecePairs(conf.v[i], out.v[i]) : i \in DOMAIN conf.v}
      [] OTHER -> {}

HeaderPairs(conf, out) ==
    UNION {{<<conf[i].v[j], out[i].v[j]>> : j \in DOMAIN conf[i].v} : i \in DOMAIN conf \cap DOMAIN out}

\* the pairs of the observed response: body and headers
RespPairs ==
    PiecePairs(RespRule.response.body, resp.response.body)
        \cup HeaderPairs(RespRule.response.headers, resp.response.headers)

(***************************************************************************)
(* Dispatch: rule selection and the no-match fallback.                     *)
(***************************************************************************)
\* no rule of the endpoint matches the body: none is a wildcard and none has
\* its conditions satisfied
NoRuleMatches(ep, body) ==
    \A i \in DOMAIN ep.responses :
        /\ ep.responses[i].body_conditions # NoConditions
        /\ ~Satisfies(body, ep.responses[i].body_conditions)

PassedChecks ==
    /\ resp # NoResp
    /\ resp.ran
    /\ resp.response.kind \notin {"header_400", "bad_body_400"}

\* C1: a request that passes the header, auth and body checks and that no
\* rule matches is answered 500 with the configuration-error payload,
\* whichever handler variant serves the endpoint
C1_NoMatchIs500 ==
    (PassedChecks /\ NoRuleMatches(RespEndpoint, SeenBody(RespEndpoint, resp.req)))
        => (resp.response.status_code = 500 /\ resp.response.kind = "no_rule_500")

\* C2: a "{p}" of the matched rule's body is returned as the value the
\* request path binds p to
C2_PathSubstitution ==
    FromRule =>
        \A pr \in PiecePairs(RespRule.response.body, resp.response.body) :
            (pr[1].p = "path" /\ HasPathParam(RespEndpoint.path, pr[1].s)
                /\ pr[1].s \in DOMAIN resp.req.path_params)
            => pr[2] = Lit(resp.req.path_params[pr[1].s])

IsRandomSession(pc) == pc.p = "auth" /\ pc.m = "vmanage_session" /\ pc.sel = "random_session"

ValidSessions == AuthMethods["vmanage_session"].valid_sessions

\* C3: the random_session tokens resolved in one response, body and
\* headers, are all answered from one session of valid_sessions
C3_OneSessionPerRequest ==
    FromRule =>
        \E i \in DOMAIN ValidSessions :
            \A pr \in RespPairs :
                (IsRandomSession(pr[1]) /\ pr[2] # pr[1])
                => pr[2] = Lit(SessionField(ValidSessions[i], pr[1].prop))

\* C3 witness: a request that was suspended at its await has returned the
\* session id and the csrf token of a random session
C3_Witness ==
    /\ FromRule
    /\ resp.awaited
    /\ \E pr \in RespPairs : IsRandomSession(pr[1]) /\ pr[1].prop = "session_id" /\ pr[2].p = "lit"
    /\ \E pr \in RespPairs : IsRandomSession(pr[1]) /\ pr[1].prop = "csrf_token" /\ pr[2].p = "lit"

\* C4: the placeholders of a request are never answered from a choice that
\* another request cached: when the resolution of a response starts, the
\* cache holds no entry for the random selectors of its rule
C4_CacheNotShared ==
    FromRule =>
        \A pc \in RulePieces(RespRule) :
            IsRandomTok(pc) => (pc.m \o "." \o pc.sel) \notin DOMAIN resp.found

Tokens(m) == {AuthMethods[m].valid_tokens[i].access_token : i \in DOMAIN AuthMethods[m].valid_tokens}
Keys(m) == {AuthMethods[m].valid_keys[i] : i \in DOMAIN AuthMethods[m].valid_keys}

\* the session id a request presents: the session cookie, else the value of
\* the raw Cookie header
PresentedSession(req) ==
    IF req.cookie.form = "pair" /\ req.cookie.name # AuthMethods["vmanage_session"].session_cookie
    THEN "" ELSE req.cookie.value

\* the credentials of the request satisfy a required method
Satisfied(m, auth_methods, req) ==
    CASE m \in {"api_key", "system_api_key"} -> req.api_key \in Keys(m)
      [] m = "csrf_token" -> req.csrf_token \in Keys(m)
      [] m = "basic_auth" ->
            /\ req.basic.present
            /\ \E i \in DOMAIN AuthMethods[m].valid_credentials :
                  /\ AuthMethods[m].valid_credentials[i].username = req.basic.username
                  /\ AuthMethods[m].valid_credentials[i].password = req.basic.password
      [] m \in {"oidc_auth_code", "oidc_client_credentials"} ->
            \E i \in DOMAIN auth_methods :
                /\ auth_methods[i] \in {"oidc_auth_code", "oidc_client_credentials"}
                /\ req.bearer \in Tokens(auth_methods[i])
      [] m = "vmanage_session" ->
            \E i \in DOMAIN ValidSessions : ValidSessions[i].session_id = PresentedSession(req)

\* the specific error of a required method that failed
ErrorFor(m, req) ==
    CASE m \in {"api_key", "system_api_key"} ->
            IF req.api_key = "" THEN "Missing API key" ELSE "Invalid API key"
      [] m = "csrf_token" -> IF req.csrf_token = "" THEN "Missing CSRF token" ELSE "Invalid CSRF token"
      [] m = "basic_auth" ->
            IF req.basic.present THEN "Invalid credentials" ELSE "Missing basic auth credentials"
      [] m \in {"oidc_auth_code", "oidc_client_credentials"} ->
            IF req.bearer = "" THEN "Missing bearer token" ELSE "Invalid bearer token"
      [] m = "vmanage_session" ->
            IF PresentedSession(req) = "" THEN "Missing session cookie" ELSE "Invalid session cookie"

Required == {RespEndpoint.authentication[i] : i \in DOMAIN RespEndpoint.authentication}
Failed == {m \in Required : ~Satisfied(m, RespEndpoint.authentication, resp.req)}

\* C5: when a required method is missing or invalid the request fails with
\* 401, the message lists the required methods and holds the specific error
\* of every required method that failed
C5_AuthAggregation ==
    (resp # NoResp /\ Failed # {}) =>
        /\ resp.response.status_code = 401
        /\ resp.response.kind = "auth_401"
        /\ resp.response.body.v.required = RespEndpoint.authentication
        /\ \A m \in Failed : InList(ErrorFor(m, resp.req), resp.response.body.v.errors)

\* C6: behind a non-empty authentication list the handler body runs if and
\* only if every listed method is satisfied; otherwise the answer is 401
C6_RunsIffAllSatisfied ==
    (resp # NoResp /\ Required # {}) =>
        /\ resp.ran <=> Failed = {}
        /\ ~resp.ran => resp.response.status_code = 401

\* C7: a request that violates a required header is answered 400, also
\* when its credentials are missing or invalid
C7_HeadersBeforeAuth ==
    (resp # NoResp
        /\ \E h \in DOMAIN RespEndpoint.required_headers :
              HeaderGet(resp.req.headers, h) # RespEndpoint.required_headers[h])
    => resp.response.status_code = 400

\* C5 and C6 for the endpoints that do not require system_api_key
AuthWithoutSystemKey ==
    resp = NoResp \/ "system_api_key" \in Required \/ (C5_AuthAggregation /\ C6_RunsIffAllSatisfied)

\* C8: for every body and every conditions map that is not null,
\* check_conditions is true if and only if every key of the conditions is
\* present in the body with an exactly equal value, the empty map and
\* expected values of null included
C8_ConditionMatching ==
    (ret.fn = "check_conditions" /\ call.conditions # NoConditions) =>
        (ret.value <=> Satisfies(call.data, call.conditions))

Expired(x) == now >= x.at + EntityTTL
Stored(x) == Entity(x.id, x.entity_name, x.at, x.data)

\* C10: with the store reachable, an entity that was stored and not deleted
\* is what get_entity returns at every moment before its time to live has
\* elapsed; once it has elapsed get_entity returns null and list_entities
\* no longer holds the entity
C10_EntityLifecycle ==
    \A x \in issued :
        /\ (reachable /\ ~Expired(x)) =>
              /\ get_entity(Store, reachable, now, x.entity_name, x.id) = Stored(x)
              /\ (call.fn = "get_entity" /\ call.entity_name = x.entity_name /\ call.id = x.id)
                    => ret.value = Stored(x)
        /\ Expired(x) =>
              /\ get_entity(Store, reachable, now, x.entity_name, x.id) = NoEntity
              /\ Stored(x) \notin list_entities(Store, reachable, now, x.entity_name)
              /\ (call.fn = "get_entity" /\ call.entity_name = x.entity_name /\ call.id = x.id)
                    => ret.value = NoEntity
              /\ (call.fn = "list_entities" /\ call.entity_name = x.entity_name)
                    => Stored(x) \notin ret.value

\* an entity is read back after time has passed while another has expired
C10_Witness ==
    /\ reachable
    /\ call.fn = "get_entity"
    /\ \E x, y \in issued :
          /\ Expired(x)
          /\ ~Expired(y) /\ now > y.at
          /\ call.entity_name = y.entity_name /\ call.id = y.id
          /\ ret.value = Stored(y)
          /\ get_entity(Store, reachable, now, x.entity_name, x.id) = NoEntity

\* C11: a retrieve handled while the store is unreachable is not answered
\* with the 404 of an entity that is absent
C11_UnreachableIsNotNotFound ==
    (resp # NoResp /\ resp.ran /\ RespEndpoint.persistence.action = "retrieve" /\ ~reachable)
        => resp.response.status_code # 404

\* the observed request reached the persistence branch of a create or
\* update endpoint
StoreRequested ==
    /\ resp # NoResp /\ resp.ran
    /\ RespEndpoint.persistence.action \in {"create", "update"}
    /\ resp.response.kind \notin {"header_400", "bad_body_400"}

\* C12: a create or update handled while the store is unreachable is
\* answered 503, whether or not an earlier request had connected
C12_UnreachableIs503 ==
    (StoreRequested /\ ~reachable) => resp.response.status_code = 503

\* a path parameter name that ends in "_id"
EndsInId(name) == \E stem \in {"order", "user", "product", "customer", "item"} : name = stem \o "_id"

\* C13: a retrieve takes the entity id from the path parameter whose name
\* ends in "_id", whatever the name, and answers 200 with the entity stored
\* under (entity_name, id), or 404 when there is none
C13_RetrieveById ==
    (resp # NoResp /\ resp.ran /\ RespEndpoint.persistence.action = "retrieve" /\ reachable)
        => \A name \in DOMAIN resp.req.path_params :
              EndsInId(name) =>
                 LET key == EntityKey(RespEndpoint.persistence.entity_name,
                                      resp.req.path_params[name])
                 IN IF key \in LiveKeys(redis, now)
                    THEN /\ resp.response.status_code = 200
                         /\ resp.response.body.v = redis[key].value
                    ELSE resp.response.status_code = 404

\* the rules of an endpoint that match a body: wildcards and rules whose
\* conditions the body satisfies
Matching(ep, body) ==
    {i \in DOMAIN ep.responses :
        \/ ep.responses[i].body_conditions = NoConditions
        \/ Satisfies(body, ep.responses[i].body_conditions)}

FirstMatching(ep, body) == CHOOSE i \in Matching(ep, body) : \A j \in Matching(ep, body) : i <= j

\* C14: a create whose store succeeds is answered from the first matching
\* rule: its status code (201 when it gives none) and the entries of its
\* body, merged with the id of the stored entity
C14_CreateAnswersFromRule ==
    (PassedChecks /\ RespEndpoint.persistence.action = "create" /\ resp.req.method = "POST"
        /\ resp.response.kind # "store_error"
        /\ Matching(RespEndpoint, SeenBody(RespEndpoint, resp.req)) # {})
    => LET rule == RespEndpoint.responses[FirstMatching(RespEndpoint,
                                                        SeenBody(RespEndpoint, resp.req))]
       IN /\ resp.response.status_code = DefaultStatus(rule.response.status_code, 201)
          /\ resp.response.body.t = "dict"
          /\ ItemIndex(resp.response.body.v, "id") # {}
          /\ rule.response.body.t = "dict" =>
                \A i \in DOMAIN rule.response.body.v :
                    ItemIndex(resp.response.body.v, rule.response.body.v[i].k) # {}

\* C15: the response returned for a matched rule holds none of the rule's
\* random-selector tokens or "{{...}}" templates as configured, whichever
\* handler variant serves the endpoint
C15_PlaceholdersResolved ==
    FromRule =>
        \A pr \in RespPairs : (IsRandomTok(pr[1]) \/ pr[1].p = "tmpl") => pr[2] # pr[1]

IsCurrentSession(pc) ==
    /\ pc.p = "auth" /\ pc.m = "vmanage_session" /\ pc.sel = "current_session"
    /\ pc.prop \in {"session_id", "csrf_token", "username"}

\* what a current_session token stands for in the response to a request:
\* the field of the configured session whose id the request presents, the
\* token itself when there is none
CurrentValue(pc, req) ==
    IF \E i \in DOMAIN ValidSessions : ValidSessions[i].session_id = PresentedSession(req)
    THEN LET S == ValidSessions[CHOOSE i \in DOMAIN ValidSessions :
                                  ValidSessions[i].session_id = PresentedSession(req)]
         IN Lit(SessionField(S, pc.prop))
    ELSE pc

\* C16: a current_session token of the matched rule's body is returned as
\* the field of the session the request presents, and as the original text
\* when the request presents no configured session
C16_CurrentSessionBody ==
    FromRule =>
        \A pr \in PiecePairs(RespRule.response.body, resp.response.body) :
            IsCurrentSession(pr[1]) => pr[2] = CurrentValue(pr[1], resp.req)

\* C17: a current_session token of the matched rule's headers is resolved
\* as in the body, and a header value holds no other change
C17_CurrentSessionHeaders ==
    FromRule =>
        /\ Len(resp.response.headers) = Len(RespRule.response.headers)
        /\ \A pr \in HeaderPairs(RespRule.response.headers, resp.response.headers) :
              /\ IsCurrentSession(pr[1]) => pr[2] = CurrentValue(pr[1], resp.req)
              /\ pr[1].p # "auth" => pr[2] = pr[1]


\* the combinations the resolver does not support: an unconfigured method, a
\* selector it does not know, a session selector with a property other than
\* session_id, csrf_token and username, or with none
Unsupported(pc) ==
    \/ pc.m \notin DOMAIN AuthMethods
    \/ pc.sel \notin {"current_session", "random_session", "random_key"}
    \/ /\ pc.sel \in {"current_session", "random_session"}
       /\ pc.prop \notin {"session_id", "csrf_token", "username"}

\* C18: a token whose method, selector or property is not a supported
\* combination is returned as the original token text, in a normal response
C18_UnsupportedStaysLiteral ==
    FromRule =>
        \A pr \in RespPairs : (pr[1].p = "auth" /\ Unsupported(pr[1])) => pr[2] = pr[1]


\* C19: behind system_api_key the request is accepted if and only if its
\* X-API-Key header is one of the method's valid_keys, and answered 401
\* otherwise (the other listed methods being satisfied)
C19_SystemKeyLikeApiKey ==
    (/\ resp # NoResp
     /\ "system_api_key" \in Required
     /\ \A m \in Required \ {"system_api_key"} : Satisfied(m, RespEndpoint.authentication, resp.req))
    => /\ resp.ran <=> resp.req.api_key \in Keys("system_api_key")
       /\ ~resp.ran => resp.response.status_code = 401


\* the call of dispatch under observation
Dispatched == call # NoCall /\ call.fn = "dispatch"

\* protect_endpoints is enabled in the configuration of the middleware
ProtectOn ==
    /\ "system" \in DOMAIN call.api_config
    /\ "protect_endpoints" \in DOMAIN call.api_config.system
    /\ call.api_config.system.protect_endpoints

\* the request path starts with /admin/ or /system/
UnderAdminOrSystem ==
    \/ startswith(call.request.path, <<"/", "a", "d", "m", "i", "n", "/">>)
    \/ startswith(call.request.path, <<"/", "s", "y", "s", "t", "e", "m", "/">>)

\* the valid_keys of the configured system method
SystemKeys ==
    LET m == IF "system" \in DOMAIN call.api_config
                  /\ "auth_method" \in DOMAIN call.api_config.system
             THEN call.api_config.system.auth_method ELSE "system_api_key"
    IN IF m \in DOMAIN AuthMethods /\ "valid_keys" \in DOMAIN AuthMethods[m]
       THEN {AuthMethods[m].valid_keys[i] : i \in DOMAIN AuthMethods[m].valid_keys}
       ELSE {}

HasKeyHeader == "X-API-Key" \in DOMAIN call.request.headers
HandlerCalled == ret.response.by = "call_next"
Refused(status_code) == ret.response.by = "middleware" /\ ret.response.status_code = status_code

\* C20: with protection enabled a request under /admin/ or /system/ reaches
\* the next handler only with an X-API-Key in the system method's
\* valid_keys; a missing header is answered 401 and a value not in
\* valid_keys 403; every other request is handed on unchanged
C20_SystemGate ==
    Dispatched =>
        IF ProtectOn /\ UnderAdminOrSystem
        THEN /\ HandlerCalled =>
                    (HasKeyHeader /\ call.request.headers["X-API-Key"] \in SystemKeys)
             /\ ~HasKeyHeader => Refused(401)
             /\ (HasKeyHeader /\ call.request.headers["X-API-Key"] \notin SystemKeys)
                    => Refused(403)
        ELSE ret.response = call_next(call.request)

\* C20 as the code has it: an X-API-Key header that is empty is answered as
\* a missing one, 401; only a non-empty value not in valid_keys gives 403
C20_SystemGateEmptyIsMissing ==
    Dispatched =>
        IF ProtectOn /\ UnderAdminOrSystem
        THEN LET api_key == IF HasKeyHeader THEN call.request.headers["X-API-Key"] ELSE ""
             IN /\ HandlerCalled => api_key \in SystemKeys
                /\ api_key = "" => Refused(401)
                /\ (api_key # "" /\ api_key \notin SystemKeys) => Refused(403)
        ELSE ret.response = call_next(call.request)

C20_Witness ==
    /\ Dispatched
    /\ ProtectOn
    /\ UnderAdminOrSystem
    /\ HasKeyHeader
    /\ call.request.headers["X-API-Key"] = "k1"
    /\ "k1" \notin SystemKeys
    /\ Refused(403)


\* C21: no request changes the configuration: the endpoints, their rules,
\* response bodies and headers stay as they were loaded, through every
\* step of the server
C21_ConfigNeverMutated == [][endpoints' = endpoints]_vars

\* a create or update request whose response merges the entity id and the
\* request fields into the dict body of the matched rule
C21_Witness ==
    /\ FromRule
    /\ HandlerKind(RespEndpoint) = "with_body"
    /\ RespEndpoint.persistence.action \in {"create", "update"}
    /\ RespRule.response.body.t = "dict"
    /\ resp.response.body.t = "dict"
    /\ resp.response.body # RespRule.response.body
    /\ issued # {}


\* the live entities of a type: stored, not deleted, not expired
LiveOfType(entity_name) ==
    {Stored(x) : x \in {y \in issued : y.entity_name = entity_name /\ ~Expired(y)}}

\* C22: with the store reachable, list returns exactly the live entities of
\* the type asked for: each returned entity has that entity_type and no
\* live entity of the type is left out, whatever other types are stored
C22_ListIsExact ==
    (call.fn = "list_entities" /\ reachable) =>
        /\ \A entity \in ret.value : entity.entity_type = call.entity_name
        /\ ret.value = LiveOfType(call.entity_name)


\* C23: in a returned body the text in place of a random_key token is one
\* of the method's valid_keys, and the text in place of a
\* random_session.session_id token is the session_id of a configured
\* session, as the resolution chose it
C23_RandomValuesAreConfigured ==
    FromRule =>
        \A pr \in PiecePairs(RespRule.response.body, resp.response.body) :
            /\ (/\ pr[1].p = "auth" /\ pr[1].sel = "random_key"
                /\ pr[1].m \in DOMAIN AuthMethods /\ pr[1].m # "vmanage_session"
                /\ Keys(pr[1].m) # {})
               => RenderPiece(pr[2]) \in Keys(pr[1].m)
            /\ (IsRandomSession(pr[1]) /\ pr[1].prop = "session_id" /\ ValidSessions # <<>>)
               => \E j \in DOMAIN ValidSessions :
                     RenderPiece(pr[2]) = ValidSessions[j].session_id


\* the REQUEST lines of the log file that the search asks for: not earlier
\* than since_timestamp, with a path the pattern matches
Asked ==
    {i \in DOMAIN call.log_file :
        /\ call.log_file[i].line = "request"
        /\ ret.since_timestamp = 0 \/ call.log_file[i].timestamp >= ret.since_timestamp
        /\ re_search(ret.path_regex, call.log_file[i].path)}

RECURSIVE SumOf(_)
SumOf(f) ==
    IF DOMAIN f = {} THEN 0
    ELSE LET k == CHOOSE x \in DOMAIN f : TRUE
         IN f[k] + SumOf([x \in DOMAIN f \ {k} |-> f[x]])

\* C24: search_logs returns one pair for every logged request whose path
\* matches and that is not earlier than since_timestamp, and no other pair,
\* the newest first; total_requests is their number and the counts of the
\* status summary add up to it
C24_SearchIsExact ==
    (ret # NoCall /\ ret.fn = "search_logs") =>
        LET found == ret.value.matched_requests
        IN /\ Len(found) = Cardinality(Asked)
           /\ \A i \in Asked : \E j \in DOMAIN found :
                 /\ found[j].correlation_id = call.log_file[i].correlation_id
                 /\ found[j].path = call.log_file[i].path
                 /\ found[j].timestamp = call.log_file[i].timestamp
           /\ \A j, k \in DOMAIN found : j < k => found[j].timestamp >= found[k].timestamp
           /\ ret.value.total_requests = Len(found)
           /\ SumOf(ret.value.status_code_summary) = ret.value.total_requests


\* a live entity is stored under (entity_name, id): stored, not deleted, not
\* expired
LiveUnder(entity_name, entity_id) ==
    \E x \in issued : x.entity_name = entity_name /\ x.id = entity_id /\ ~Expired(x)

\* C25: delete_entity returns true if and only if a live entity is stored
\* under (entity_name, id) when it is called; after a true result
\* get_entity returns null for it; every other stored entity is left as it
\* was
C25_DeleteIsExact ==
    [][(call = NoCall /\ call'.fn = "delete_entity") =>
          /\ ret'.value <=> LiveUnder(call'.entity_name, call'.id)
          /\ ret'.value =>
                get_entity(Store', reachable', now', call'.entity_name, call'.id) = NoEntity
          /\ \A k \in DOMAIN redis \ {EntityKey(call'.entity_name, call'.id)} :
                k \in DOMAIN redis' /\ redis'[k] = redis[k]]_vars


\* C26: the "id" of the response to a successful create or update is the
\* id under which the entity was stored, whatever the request body holds
C26_ReturnedIdIsStoredId ==
    (StoreRequested /\ resp.response.status_code \in {200, 201} /\ resp.response.body.t = "dict")
    => /\ EntityKey(RespEndpoint.persistence.entity_name, Uuid(nextId)) \in DOMAIN redis
       /\ \A i \in ItemIndex(resp.response.body.v, "id") :
             resp.response.body.v[i].v = [t |-> "id", v |-> Uuid(nextId)]


\* C27: for a request that verify_auth accepts for vmanage_session, the
\* request context of the placeholder resolution holds the session id the
\* request was authenticated with
C27_SameSessionExtracted ==
    (resp # NoResp /\ resp.ran /\ "vmanage_session" \in Required)
    => /\ PresentedSession(resp.req) # ""
       /\ extract_request_context(resp.req).session_id = PresentedSession(resp.req)


\* C28: on the rules of an endpoint and the body of a request it handled,
\* the dispatch loop of create_handler and of the form handler returns from
\* the same rule as the loop of create_handler_with_body, rules with an
\* empty body_conditions map included
C28_VariantsSelectSameRule ==
    (resp # NoResp /\ resp.ran) =>
        LET request_body == SeenBody(RespEndpoint, resp.req)
            selected(kind) == first_match(RespEndpoint.responses, request_body, kind, 1)
        IN /\ selected("plain") = selected("with_body")
           /\ selected("form") = selected("with_body")
           /\ FromRule => resp.response.rule = selected("with_body")


\* C29: a start of configuration C is refused with "already running" only
\* while a server process of C is alive; after the tracked process has
\* exited the start succeeds
Alive(config_name) ==
    \E pid \in DOMAIN processes : processes[pid].alive /\ processes[pid].config = config_name

C29_RefusedOnlyWhileAlive ==
    [][(call = NoCall /\ call'.fn = "start" /\ ret'.value = "already running")
          => Alive(call'.config_name)]_vars


\* C30: after every save, remove and remove_by_id the tracked list holds no
\* two instances of one configuration name and no two instances on one
\* port, and a save of instance I keeps every tracked instance that has
\* neither I's configuration name nor I's port as it was
OneEach(servers_data) ==
    \A i, j \in DOMAIN servers_data :
        i # j => /\ servers_data[i].config # servers_data[j].config
                 /\ servers_data[i].port # servers_data[j].port

Tracked(servers_data) == {servers_data[i] : i \in DOMAIN servers_data}

C30_TrackedOncePerConfigAndPort ==
    [][/\ OneEach(servers')
       /\ (call = NoCall /\ call'.fn = "save") =>
             /\ call'.instance \in Tracked(servers')
             /\ \A s \in Tracked(servers) :
                   (s.config # call'.instance.config /\ s.port # call'.instance.port)
                   => s \in Tracked(servers')]_vars

\* C30 witness: a save has replaced nothing of an instance of another
\* configuration on another port, which is tracked next to the saved one
C30_Witness ==
    /\ call.fn = "save"
    /\ Len(servers) = 2
    /\ servers[2] = call.instance
    /\ servers[1].config # call.instance.config
    /\ servers[1].port # call.instance.port

====
